---- MODULE Spec2Model ----
(***************************************************************************)
(* A model of geodatarev: the scanning pipeline (scanner.py), the magic    *)
(* number identifier (identifier.py) and the format parsers (parsers/).    *)
(*                                                                         *)
(* Text is modelled as sequences of character codes, byte buffers as       *)
(* sequences of numbers 0..255, a path as the sequence of its components.  *)
(* None is the empty sequence <<>>, a present optional value x is <<x>>.   *)
(***************************************************************************)
EXTENDS Integers, Sequences, FiniteSets, TLC

VARIABLES
    \* DirectoryScanner.scan_file on one file, one try-block at a time
    file,       \* the file on disk that scan_file is given
    scanner,    \* the DirectoryScanner's configuration
    report,     \* the FileReport under construction
    pc,         \* the stage scan_file is about to run
    trace,      \* history: every stage entered and every parser call made
    \* DirectoryScanner.scan_directory / scan_cloud
    root,       \* the scanned location: a local directory tree or a cloud listing
    recursive,  \* the call's recursive argument
    queue,      \* the sequence the for-loop iterates
    reports,    \* the list[FileReport] being built
    bpc,        \* position of the batch scan
    tmp,        \* temporary directories and files that exist (scan_cloud)
    downloads,  \* history: keys provider.download was called with
    \* one call of a pure function (identifier, parsers)
    fn,         \* the function called
    args,       \* its arguments
    result,     \* the ParseResult being built, then what the call returned
                \* or raised; <<>> before the call
    offset,     \* the read offset of a parser's loop
    fpc         \* position of the call: "call", "loop", "done"

fileVars == <<file, scanner, report, pc, trace>>
batchVars == <<root, recursive, queue, reports, bpc, tmp, downloads>>
fnVars == <<fn, args, result, offset, fpc>>
vars == <<fileVars, batchVars, fnVars>>

(***************************************************************************)
(* Generic helpers                                                         *)
(***************************************************************************)
Min(a, b) == IF a <= b THEN a ELSE b

Range(s) == {s[i] : i \in 1..Len(s)}

\* Python's sequence comparison a < b on sequences of numbers (str < str).
RECURSIVE StrLess(_, _)
StrLess(a, b) ==
    IF b = <<>> THEN FALSE
    ELSE IF a = <<>> THEN TRUE
    ELSE IF a[1] /= b[1] THEN a[1] < b[1]
    ELSE StrLess(Tail(a), Tail(b))

\* Python's list comparison a < b on lists of str.
RECURSIVE PartsLess(_, _)
PartsLess(a, b) ==
    IF b = <<>> THEN FALSE
    ELSE IF a = <<>> THEN TRUE
    ELSE IF a[1] /= b[1] THEN StrLess(a[1], b[1])
    ELSE PartsLess(Tail(a), Tail(b))

\* str(path): the components joined by "/" (code 47).
RECURSIVE PathStr(_)
PathStr(p) ==
    IF p = <<>> THEN <<>>
    ELSE IF Len(p) = 1 THEN p[1]
    ELSE p[1] \o <<47>> \o PathStr(Tail(p))

\* str.lower() on one character code.
LowerChar(c) == IF c \in 65..90 THEN c + 32 ELSE c

Lower(s) == [i \in 1..Len(s) |-> LowerChar(s[i])]

\* PurePath.suffix: the last component from its last "." (code 46), when
\* that dot is neither its first nor its last character.
Suffix(p) ==
    LET name == p[Len(p)]
        dots == {i \in 1..Len(name) : name[i] = 46}
        last == CHOOSE i \in dots : \A j \in dots : j <= i
    IN  IF dots = {} THEN <<>>
        ELSE IF 1 < last /\ last < Len(name) THEN SubSeq(name, last, Len(name))
        ELSE <<>>

DotDat == <<46, 100, 97, 116>>
DotGrd == <<46, 103, 114, 100>>
DotBin == <<46, 98, 105, 110>>

(***************************************************************************)
(* FileReport and the stages of DirectoryScanner.scan_file                 *)
(***************************************************************************)
FileReport(path) ==
    [path |-> path, size |-> 0, identified_formats |-> <<>>,
     analysis |-> <<>>, parse_result |-> <<>>, gdal_result |-> <<>>,
     errors |-> <<>>]

AddError(rep, msg) == [rep EXCEPT !.errors = Append(@, msg)]

\* What a call into another component gave: a value or an exception.
Returned(v) == [raised |-> FALSE, value |-> v]
Raised == [raised |-> TRUE, value |-> <<>>]

\* The registry: the built-in parsers, then the caller's.
BuiltinParsers == <<"surfer6", "surfer7", "ermapper", "encom", "geosoft", "zmap">>

ScannerParsers(sc) == BuiltinParsers \o sc.parsers

\* The buffer the capability test is given, head = fh.read(max_sample): its
\* length, and the features c of those leading bytes that can_parse reads.
HeadSample(f, sc, c) ==
    [len |-> Min(f.size, sc.max_sample), magic |-> c.magic, ers |-> c.ers,
     grid168 |-> c.grid168, geohdr |-> c.geohdr, zmap |-> c.zmap,
     custom |-> c.custom]

\* The length of the buffer parse_file reads: fh.read().
FullLength(f) == f.size

\* can_parse of each parser, on a buffer d given by its length and by what
\* its bytes hold: the 4 bytes at 0 (magic), "DatasetHeader" in the first 256
\* (ers), GRID at 168 (grid168), a valid Geosoft header (geohdr), the ZMap+
\* markers (zmap); a caller's parser accepts as it likes (custom).
CanParse(p, d) ==
    CASE p = "surfer6" -> d.len >= 56 /\ d.magic = "DSBB"
      [] p = "surfer7" -> d.len >= 8 /\ d.magic = "DSRB"
      [] p = "ermapper" -> d.ers
      [] p = "encom" -> d.len >= 240 /\ d.grid168
      [] p = "geosoft" -> /\ d.len >= 512
                          /\ d.magic \notin {"DSBB", "DSRB", "DSAA"}
                          /\ d.geohdr
      [] p = "zmap" -> d.zmap
      [] OTHER -> d.custom

\* Mutant: the loop has no break, the last accepting parser wins.
LastMatching(parsers, d) ==
    LET hits == {i \in 1..Len(parsers) : CanParse(parsers[i], d)}
    IN  IF hits = {} THEN 0 ELSE CHOOSE i \in hits : \A j \in hits : j <= i

\* Index of the parser the for-loop stops at, 0 when it runs to the end.
FirstMatching(parsers, d) ==
    LET hits == {i \in 1..Len(parsers) : CanParse(parsers[i], d)}
    IN  IF hits = {} THEN 0 ELSE CHOOSE i \in hits : \A j \in hits : i <= j

\* try: matches = identify_file(path) ... except: errors.append(...)
StageIdentify(rep, res) ==
    IF res.raised THEN AddError(rep, "Identification error")
    ELSE [rep EXCEPT !.identified_formats = res.value]

\* if not identified_formats: try: open, classify by suffix ... except
StageDisambiguate(rep, f, res) ==
    IF rep.identified_formats /= <<>> THEN rep
    ELSE IF res.raised THEN AddError(rep, "Disambiguation error")
    ELSE IF Lower(Suffix(f.path)) = DotDat
         THEN [rep EXCEPT !.identified_formats = <<res.value.dat>>]
    ELSE IF Lower(Suffix(f.path)) = DotGrd
         THEN [rep EXCEPT !.identified_formats = <<res.value.grd>>]
    ELSE rep

\* try: analysis = analyzer.analyze_file(path) except
StageAnalyse(rep, res) ==
    IF res.raised THEN AddError(rep, "Analysis error")
    ELSE [rep EXCEPT !.analysis = <<res.value>>]

\* Whether the try-block of the parse stage ends in its except clause: the
\* open or the read raised, or the chosen parser's parse_file did.
ParseRaised(f, sc, in) ==
    \/ in.io
    \/ /\ FirstMatching(ScannerParsers(sc), HeadSample(f, sc, in.content)) /= 0
       /\ in.outcome = "raises"

\* try: head = read(max_sample); first parser with can_parse(head) parses
\* the file; break ... except
StageParse(rep, f, sc, in) ==
    LET parsers == ScannerParsers(sc)
        k == FirstMatching(parsers, HeadSample(f, sc, in.content))
    IN  IF ParseRaised(f, sc, in) THEN AddError(rep, "Parse error")
        ELSE IF k = 0 THEN rep
        ELSE [rep EXCEPT !.parse_result =
                <<[parser |-> parsers[k], len |-> FullLength(f),
                   errors |-> IF in.outcome = "partial"
                              THEN <<"error">> ELSE <<>>]>>]

\* The parser calls the parse stage makes, in order.
ParseCalls(f, sc, in) ==
    LET parsers == ScannerParsers(sc)
        head == HeadSample(f, sc, in.content)
        k == FirstMatching(parsers, head)
        n == IF k = 0 THEN Len(parsers) ELSE k
        tests == [i \in 1..n |->
                    [op |-> "can_parse", who |-> parsers[i], len |-> head.len,
                     ok |-> CanParse(parsers[i], head)]]
    IN  IF in.io THEN <<>>
        ELSE IF k = 0 THEN tests
        ELSE tests \o <<[op |-> "parse", who |-> parsers[k],
                         len |-> FullLength(f),
                         ok |-> in.outcome /= "raises"]>>

\* if check_gdal: try: gdal_result = try_gdal_open(path) except
StageGdal(rep, sc, res) ==
    IF ~sc.check_gdal THEN rep
    ELSE IF res.raised THEN AddError(rep, "GDAL check error")
    ELSE [rep EXCEPT !.gdal_result = <<res.value>>]

(***************************************************************************)
(* What the stages of scan_file can be given for a file f: the results of  *)
(* the components they call, and the bytes they read.  Every read of an    *)
(* unreadable file raises; any call may raise for a reason of its own.     *)
(***************************************************************************)
MatchLists == {<<>>, <<"Surfer 6 Binary Grid">>}

DatLabels == {"ASEG-GDF2", "ZMap+", "Unknown .dat"}

GrdLabels == {"Surfer 6 Binary Grid", "Geosoft Binary Grid", "Unknown .grd"}

IdentifyOutcomes(f) ==
    IF f.readable THEN {Raised} \cup {Returned(m) : m \in MatchLists}
    ELSE {Raised}

DisambiguateOutcomes(f) ==
    IF ~f.readable THEN {Raised}
    ELSE {Raised} \cup
         {Returned([dat |-> d, grd |-> g]) :
            d \in IF Lower(Suffix(f.path)) = DotDat THEN DatLabels ELSE {""},
            g \in IF Lower(Suffix(f.path)) = DotGrd THEN GrdLabels ELSE {""}}

AnalyseOutcomes(f) ==
    IF f.readable THEN {Raised, Returned([file_size |-> f.size])}
    ELSE {Raised}

\* The features a buffer of n bytes can have.
Contents(n) ==
    {c \in [magic : {"DSBB", "DSRB", "DSAA", "none"}, ers : BOOLEAN,
            grid168 : BOOLEAN, geohdr : BOOLEAN, zmap : BOOLEAN,
            custom : BOOLEAN] :
        /\ c.magic /= "none" => n >= 4
        /\ c.grid168 => n >= 172
        /\ c.geohdr => n >= 72
        /\ c.ers => n >= 13
        /\ c.zmap => n >= 2}

ParseInputs(f, sc) ==
    {in \in [content : Contents(Min(f.size, sc.max_sample)), io : BOOLEAN,
             outcome : {"ok", "partial", "raises"}] :
        /\ ~f.readable => in.io
        /\ in.content.custom => sc.parsers /= <<>>}

GdalOutcomes ==
    {Raised, Returned([can_read |-> TRUE]), Returned([can_read |-> FALSE])}

StageEntry(name, ok) == [op |-> "stage", who |-> name, len |-> 0, ok |-> ok]

(***************************************************************************)
(* scan_file, one try-block per action                                     *)
(***************************************************************************)
\* report = FileReport(path); not a file / empty file return at once
ScanFileEntry ==
    /\ pc = "entry"
    /\ IF ~file.is_file
       THEN /\ report' = AddError(report, "Not a file")
            /\ pc' = "done"
       ELSE IF file.size = 0
       THEN /\ report' = AddError([report EXCEPT !.size = file.size], "Empty file")
            /\ pc' = "done"
       ELSE /\ report' = [report EXCEPT !.size = file.size]
            /\ pc' = "identify"
    /\ UNCHANGED <<file, scanner, trace, batchVars, fnVars>>

\* Mutant: an identification failure ends scan_file.
IdentifyAborts ==
    /\ pc = "identify"
    /\ \E res \in IdentifyOutcomes(file) :
          /\ report' = StageIdentify(report, res)
          /\ trace' = Append(trace, StageEntry("identify", ~res.raised))
          /\ pc' = IF res.raised THEN "done" ELSE "disambiguate"
    /\ UNCHANGED <<file, scanner, batchVars, fnVars>>

Identify ==
    /\ pc = "identify"
    /\ \E res \in IdentifyOutcomes(file) :
          /\ report' = StageIdentify(report, res)
          /\ trace' = Append(trace, StageEntry("identify", ~res.raised))
    /\ pc' = "disambiguate"
    /\ UNCHANGED <<file, scanner, batchVars, fnVars>>

Disambiguate ==
    /\ pc = "disambiguate"
    /\ IF report.identified_formats /= <<>>
       THEN UNCHANGED <<report, trace>>
       ELSE \E res \in DisambiguateOutcomes(file) :
               /\ report' = StageDisambiguate(report, file, res)
               /\ trace' = Append(trace, StageEntry("disambiguate", ~res.raised))
    /\ pc' = "analyse"
    /\ UNCHANGED <<file, scanner, batchVars, fnVars>>

Analyse ==
    /\ pc = "analyse"
    /\ \E res \in AnalyseOutcomes(file) :
          /\ report' = StageAnalyse(report, res)
          /\ trace' = Append(trace, StageEntry("analyse", ~res.raised))
    /\ pc' = "parse"
    /\ UNCHANGED <<file, scanner, batchVars, fnVars>>

Parse ==
    /\ pc = "parse"
    /\ \E in \in ParseInputs(file, scanner) :
          /\ report' = StageParse(report, file, scanner, in)
          /\ trace' = Append(trace, StageEntry("parse",
                                    ~ParseRaised(file, scanner, in)))
                        \o ParseCalls(file, scanner, in)
    /\ pc' = "gdal"
    /\ UNCHANGED <<file, scanner, batchVars, fnVars>>

GdalCheck ==
    /\ pc = "gdal"
    /\ IF ~scanner.check_gdal
       THEN UNCHANGED <<report, trace>>
       ELSE \E res \in GdalOutcomes :
               /\ report' = StageGdal(report, scanner, res)
               /\ trace' = Append(trace, StageEntry("gdal", ~res.raised))
    /\ pc' = "done"
    /\ UNCHANGED <<file, scanner, batchVars, fnVars>>

(***************************************************************************)
(* The files and scanners the model draws from                             *)
(***************************************************************************)
\* "x.dat", "x.GRD", "x.bin"
FilePaths == {<<<<120, 46, 100, 97, 116>>>>, <<<<120, 46, 71, 82, 68>>>>,
              <<<<120, 46, 98, 105, 110>>>>}

\* Lengths on either side of what the parsers' capability tests ask for.
FileSizes == {0, 8, 56, 240, 512}

Files ==
    {f \in [path : FilePaths, is_file : BOOLEAN, size : FileSizes,
            readable : BOOLEAN] :
        /\ ~f.is_file => (f.size = 0 /\ ~f.readable)
        /\ f.size = 0 /\ f.is_file => f.readable}

Scanners ==
    [check_gdal : BOOLEAN, max_sample : {256, 1048576},
     parsers : {<<>>, <<"custom">>}, extensions : {<<>>}]

(***************************************************************************)
(* scan_file as one call: the stages in their order                        *)
(***************************************************************************)
\* Mutant: no early return for an empty file.
ScanFileNoEmptyCheck(f, sc, in) ==
    LET r0 == FileReport(f.path)
        r1 == [r0 EXCEPT !.size = f.size]
    IN  IF ~f.is_file THEN AddError(r0, "Not a file")
        ELSE StageGdal(
                StageParse(
                    StageAnalyse(
                        StageDisambiguate(
                            StageIdentify(r1, in.identify), f, in.disambiguate),
                        in.analyse),
                    f, sc, in.parse),
                sc, in.gdal)

ScanFile(f, sc, in) ==
    LET r0 == FileReport(f.path)
        r1 == [r0 EXCEPT !.size = f.size]
    IN  IF ~f.is_file THEN AddError(r0, "Not a file")
        ELSE IF f.size = 0 THEN AddError(r1, "Empty file")
        ELSE StageGdal(
                StageParse(
                    StageAnalyse(
                        StageDisambiguate(
                            StageIdentify(r1, in.identify), f, in.disambiguate),
                        in.analyse),
                    f, sc, in.parse),
                sc, in.gdal)

(***************************************************************************)
(* Batch scans: the entries of a root and what scanning each one meets     *)
(***************************************************************************)
MaxFiles == 3
MaxObjects == 2

\* "a" (a directory), "a/b.grd", "a.grd", "a-b.dat", "b.bin"
DirA == <<<<97>>>>
LocalFiles == {<<<<97>>, <<98, 46, 103, 114, 100>>>>, <<<<97, 46, 103, 114, 100>>>>,
               <<<<97, 45, 98, 46, 100, 97, 116>>>>, <<<<98, 46, 98, 105, 110>>>>}

\* keys "d/a.grd", "b.GRD", "c.dat"
CloudKeys == {<<<<100>>, <<97, 46, 103, 114, 100>>>>, <<<<98, 46, 71, 82, 68>>>>,
              <<<<99, 46, 100, 97, 116>>>>}

\* What a regular file is like: well-formed, empty, unreadable (every read of
\* it raises), corrupt (its parser raises), or, in a store, not downloadable
\* or downloaded to a copy on which scan_file raises.
LocalKinds == {"ok", "empty", "unreadable", "corrupt"}
CloudKinds == {"ok", "empty", "corrupt", "dlfail", "scanfail"}

\* The file behind an entry, as scan_file sees it.
EntryFile(e) ==
    [path |-> e.path, is_file |-> e.is_file,
     size |-> IF e.kind \in {"empty", "dir"} THEN 0 ELSE 80,
     readable |-> e.kind \in {"ok", "empty", "corrupt"}]

\* What the stages are given on an entry of each kind.
EntryInputs(e) ==
    LET f == EntryFile(e)
        grid == [magic |-> "DSBB", ers |-> FALSE, grid168 |-> FALSE,
                 geohdr |-> FALSE, zmap |-> FALSE, custom |-> FALSE]
        text == [grid EXCEPT !.magic = "none", !.zmap = TRUE]
    IN  CASE e.kind = "ok" ->
               [identify |-> Returned(<<"Surfer 6 Binary Grid">>),
                disambiguate |-> Returned([dat |-> "Unknown .dat", grd |-> "Surfer 6 Binary Grid"]),
                analyse |-> Returned([file_size |-> f.size]),
                parse |-> [content |-> grid, io |-> FALSE, outcome |-> "ok"],
                gdal |-> Returned([can_read |-> TRUE])]
          [] e.kind = "corrupt" ->
               [identify |-> Returned(<<>>),
                disambiguate |-> Returned([dat |-> "ZMap+", grd |-> "Unknown .grd"]),
                analyse |-> Returned([file_size |-> f.size]),
                parse |-> [content |-> text, io |-> FALSE, outcome |-> "raises"],
                gdal |-> Returned([can_read |-> FALSE])]
          [] OTHER ->
               [identify |-> Raised, disambiguate |-> Raised, analyse |-> Raised,
                parse |-> [content |-> grid, io |-> TRUE, outcome |-> "raises"],
                gdal |-> Returned([can_read |-> FALSE])]

\* Every order an iterator can yield the elements of S in.
RECURSIVE Orders(_)
Orders(S) ==
    IF S = {} THEN {<<>>}
    ELSE UNION {{<<x>> \o o : o \in Orders(S \ {x})} : x \in S}

\* Path.__lt__: the component lists compared.
PathLess(a, b) == PartsLess(a, b)

\* sorted(entries): a stable insertion sort by path.
RECURSIVE InsertSorted(_, _)
InsertSorted(e, s) ==
    IF s = <<>> THEN <<e>>
    ELSE IF PathLess(e.path, s[1].path) THEN <<e>> \o s
    ELSE <<s[1]>> \o InsertSorted(e, Tail(s))

\* Mutant: the entries are visited as the iterator yields them.
Unsorted(s) == s

RECURSIVE Sorted(_)
Sorted(s) ==
    IF s = <<>> THEN <<>>
    ELSE InsertSorted(s[Len(s)], Sorted(SubSeq(s, 1, Len(s) - 1)))

\* root.rglob("*") or root.glob("*"): the entries it yields, as a set.
Enumerate(r, rec) == {e \in r.entries : rec \/ Len(e.path) = 1}

\* The extension filter of scan_directory.
PassesFilter(e, sc) ==
    sc.extensions = <<>> \/ Lower(Suffix(e.path)) \in sc.extensions[1]

\* provider.list_objects: the store's objects in the provider's order,
\* filtered by extension when extensions are given (CloudObject.suffix).
ListObjects(r, sc) == SelectSeq(r.listing, LAMBDA o : PassesFilter(o, sc))

\* if is_cloud_uri(root): scan_cloud; else if not is_dir: return [];
\* else the loop runs over sorted(iterator)
ScanDirectoryEnter ==
    /\ bpc = "call"
    /\ IF root.cloud
       THEN /\ queue' = ListObjects(root, scanner)
            /\ bpc' = "cloud"
       ELSE IF ~root.is_dir
       THEN /\ queue' = <<>>
            /\ bpc' = "done"
       ELSE /\ \E order \in Orders(Enumerate(root, recursive)) :
                  queue' = Sorted(order)
            /\ bpc' = "local"
    /\ UNCHANGED <<root, recursive, reports, tmp, downloads, fileVars, fnVars>>

\* Mutant: a report with errors ends the loop.
ScanDirectoryVisitStopsOnError ==
    /\ bpc = "local"
    /\ queue /= <<>>
    /\ LET entry == Head(queue)
           rep == ScanFile(EntryFile(entry), scanner, EntryInputs(entry))
       IN  IF ~entry.is_file \/ ~PassesFilter(entry, scanner)
           THEN UNCHANGED reports /\ queue' = Tail(queue)
           ELSE /\ reports' = Append(reports, rep)
                /\ queue' = IF rep.errors /= <<>> THEN <<>> ELSE Tail(queue)
    /\ UNCHANGED <<root, recursive, bpc, tmp, downloads, fileVars, fnVars>>

\* one iteration of the for-loop of scan_directory
ScanDirectoryVisit ==
    /\ bpc = "local"
    /\ queue /= <<>>
    /\ LET entry == Head(queue)
       IN  IF ~entry.is_file \/ ~PassesFilter(entry, scanner)
           THEN UNCHANGED reports
           ELSE reports' = Append(reports,
                    ScanFile(EntryFile(entry), scanner, EntryInputs(entry)))
    /\ queue' = Tail(queue)
    /\ UNCHANGED <<root, recursive, bpc, tmp, downloads, fileVars, fnVars>>

\* return reports
ScanReturn ==
    /\ bpc \in {"local", "cloud"}
    /\ queue = <<>>
    /\ bpc' = "done"
    /\ UNCHANGED <<root, recursive, queue, reports, tmp, downloads, fileVars, fnVars>>

\* The temporary directory made for an object and the file downloaded
\* into it, Path(td) / obj.name; name is the basename of the key.
TempDir(obj) == [dir |-> obj.path, name |-> <<>>]
TempFile(obj) == [dir |-> obj.path, name |-> <<obj.path[Len(obj.path)]>>]

\* Mutant: leaving the with-block removes nothing.
KeepTree(fs, obj) == fs

\* Leaving the with-block: the directory goes with all that lies in it.
RemoveTree(fs, obj) == {t \in fs : t.dir # obj.path}

\* scan_cloud, top of the loop body: the report is created; an empty object
\* is reported at once, for any other the temporary directory is created
CloudObjectBegin ==
    /\ bpc = "cloud"
    /\ queue /= <<>>
    /\ LET obj == Head(queue)
           rep == [FileReport(<<"s3", obj.path>>) EXCEPT !.size = EntryFile(obj).size]
       IN  IF rep.size = 0
           THEN /\ reports' = Append(reports, AddError(rep, "Empty file"))
                /\ queue' = Tail(queue)
                /\ UNCHANGED <<report, tmp, bpc>>
           ELSE /\ report' = rep
                /\ tmp' = tmp \cup {TempDir(obj)}
                /\ bpc' = "download"
                /\ UNCHANGED <<reports, queue>>
    /\ UNCHANGED <<root, recursive, downloads, file, scanner, pc, trace, fnVars>>

\* Mutant: a failed download is not caught per object; the scan ends there.
CloudDownloadAborts ==
    /\ bpc = "download"
    /\ LET obj == Head(queue)
       IN  /\ downloads' = Append(downloads, obj.path)
           /\ IF obj.kind = "dlfail"
              THEN /\ tmp' = RemoveTree(tmp, obj)
                   /\ report' = <<>>
                   /\ queue' = <<>>
                   /\ bpc' = "cloud"
                   /\ UNCHANGED reports
              ELSE /\ tmp' = tmp \cup {TempFile(obj)}
                   /\ bpc' = "scan"
                   /\ UNCHANGED <<reports, report, queue>>
    /\ UNCHANGED <<root, recursive, file, scanner, pc, trace, fnVars>>

\* local = provider.download(...): when it raises, the with-block removes the
\* directory and the except clause records the error
CloudDownload ==
    /\ bpc = "download"
    /\ LET obj == Head(queue)
       IN  /\ downloads' = Append(downloads, obj.path)
           /\ IF obj.kind = "dlfail"
              THEN /\ tmp' = RemoveTree(tmp, obj)
                   /\ reports' = Append(reports,
                          AddError(report, "Cloud download/analysis error"))
                   /\ report' = <<>>
                   /\ queue' = Tail(queue)
                   /\ bpc' = "cloud"
              ELSE /\ tmp' = tmp \cup {TempFile(obj)}
                   /\ bpc' = "scan"
                   /\ UNCHANGED <<reports, report, queue>>
    /\ UNCHANGED <<root, recursive, file, scanner, pc, trace, fnVars>>

\* inner = self.scan_file(local); the with-block ends; the fields of inner
\* are copied into the report, which keeps the cloud path and the listed
\* size.  When scan_file raises (path.stat() is outside its try blocks) the
\* with-block ends all the same and the except clause records the error.
CloudScan ==
    /\ bpc = "scan"
    /\ LET obj == Head(queue)
           inner == ScanFile(EntryFile(obj), scanner, EntryInputs(obj))
       IN  /\ tmp' = RemoveTree(tmp, obj)
           /\ reports' = Append(reports,
                  IF obj.kind = "scanfail"
                  THEN AddError(report, "Cloud download/analysis error")
                  ELSE
                  [report EXCEPT !.identified_formats = inner.identified_formats,
                                 !.analysis = inner.analysis,
                                 !.parse_result = inner.parse_result,
                                 !.gdal_result = inner.gdal_result,
                                 !.errors = inner.errors])
    /\ report' = <<>>
    /\ queue' = Tail(queue)
    /\ bpc' = "cloud"
    /\ UNCHANGED <<root, recursive, downloads, file, scanner, pc, trace, fnVars>>

LocalEntries ==
    {[path |-> p, is_file |-> TRUE, kind |-> k] : p \in LocalFiles, k \in LocalKinds}

\* A directory tree: at most MaxFiles files, each path once, and the
\* directory "a" whenever a file lies in it.
LocalTrees ==
    {t \cup d :
        t \in {t \in SUBSET LocalEntries :
                 /\ Cardinality(t) <= MaxFiles
                 /\ \A x, y \in t : x.path = y.path => x = y},
        d \in {{}, {[path |-> DirA, is_file |-> FALSE, kind |-> "dir"]}}}

CloudObjects ==
    {[path |-> p, is_file |-> TRUE, kind |-> k] : p \in CloudKeys, k \in CloudKinds}

\* A store's listing: at most MaxObjects objects, each key once, in any order.
CloudListings ==
    UNION {Orders(t) :
        t \in {t \in SUBSET CloudObjects :
                 /\ Cardinality(t) <= MaxObjects
                 /\ \A x, y \in t : x.path = y.path => x = y}}

Roots ==
    {[cloud |-> FALSE, is_dir |-> TRUE, entries |-> t, listing |-> <<>>] :
        t \in LocalTrees}
    \cup {[cloud |-> FALSE, is_dir |-> FALSE, entries |-> {}, listing |-> <<>>]}
    \cup {[cloud |-> TRUE, is_dir |-> FALSE, entries |-> {}, listing |-> l] :
        l \in CloudListings}

BatchScanners ==
    [check_gdal : BOOLEAN, max_sample : {1048576}, parsers : {<<>>},
     extensions : {<<>>, <<{DotGrd}>>}]

BatchIdle ==
    /\ root = <<>>
    /\ recursive = FALSE
    /\ queue = <<>>
    /\ reports = <<>>
    /\ bpc = "idle"
    /\ tmp = {}
    /\ downloads = <<>>

FnIdle ==
    /\ fn = "none"
    /\ args = <<>>
    /\ result = <<>>
    /\ offset = 0
    /\ fpc = "idle"

FileIdle ==
    /\ file = <<>>
    /\ scanner = <<>>
    /\ report = <<>>
    /\ pc = "idle"
    /\ trace = <<>>

Init ==
    /\ file \in Files
    /\ scanner \in Scanners
    /\ report = FileReport(file.path)
    /\ pc = "entry"
    /\ trace = <<>>
    /\ BatchIdle
    /\ FnIdle

Next ==
    \/ ScanFileEntry
    \/ Identify
    \/ Disambiguate
    \/ Analyse
    \/ Parse
    \/ GdalCheck

Spec == Init /\ [][Next]_vars

InitBatch ==
    /\ root \in Roots
    /\ recursive \in BOOLEAN
    /\ scanner \in BatchScanners
    /\ queue = <<>>
    /\ reports = <<>>
    /\ bpc = "call"
    /\ tmp = {}
    /\ downloads = <<>>
    /\ file = <<>>
    /\ report = <<>>
    /\ pc = "idle"
    /\ trace = <<>>
    /\ FnIdle

NextBatch ==
    \/ ScanDirectoryEnter
    \/ ScanDirectoryVisit
    \/ CloudObjectBegin
    \/ CloudDownload
    \/ CloudScan
    \/ ScanReturn

SpecBatch == InitBatch /\ [][NextBatch]_vars

(***************************************************************************)
(* FileIdentifier.identify_bytes                                           *)
(***************************************************************************)
MaxConfigs == 3
MaxDataLen == 3

\* data[start:end] of Python, start and end counted from 0.
Slice(data, start, end) ==
    IF start >= Len(data) \/ end <= start THEN <<>>
    ELSE SubSeq(data, start + 1, Min(end, Len(data)))

\* The matches list before it is sorted: the positions, in registry order,
\* of the descriptors that have magic bytes which the data holds at their
\* offset.
MagicMatches(configs, data) ==
    LET hit(i) ==
            LET cfg == configs[i]
                start == cfg.magic_offset
                end == start + Len(cfg.magic_bytes)
            IN  /\ cfg.magic_bytes /= <<>>
                /\ end <= Len(data)
                /\ Slice(data, start, end) = cfg.magic_bytes
        RECURSIVE scan(_)
        scan(i) == IF i > Len(configs) THEN <<>>
                   ELSE (IF hit(i) THEN <<i>> ELSE <<>>) \o scan(i + 1)
    IN  scan(1)

\* Mutant: sorted ascending by magic length, then reversed.
RECURSIVE SortAscendingReversed(_, _)
SortAscendingReversed(configs, m) ==
    LET key(i) == Len(configs[i].magic_bytes)
        RECURSIVE ins(_, _)
        ins(x, s) == IF s = <<>> THEN <<x>>
                     ELSE IF key(x) > key(s[1]) THEN <<x>> \o s
                     ELSE <<s[1]>> \o ins(x, Tail(s))
    IN  IF m = <<>> THEN <<>>
        ELSE ins(m[1], SortAscendingReversed(configs, Tail(m)))

\* matches.sort(key=len(magic_bytes), reverse=True): a stable sort, longest
\* magic first, equal lengths left in their order.
RECURSIVE SortByMagicLength(_, _)
SortByMagicLength(configs, m) ==
    LET key(i) == Len(configs[i].magic_bytes)
        RECURSIVE ins(_, _)
        ins(x, s) == IF s = <<>> THEN <<x>>
                     ELSE IF key(x) >= key(s[1]) THEN <<x>> \o s
                     ELSE <<s[1]>> \o ins(x, Tail(s))
    IN  IF m = <<>> THEN <<>>
        ELSE ins(m[1], SortByMagicLength(configs, Tail(m)))

\* identify_bytes: the matching descriptors, given by their registry positions.
IdentifyBytes(configs, data) ==
    SortByMagicLength(configs, MagicMatches(configs, data))

RECURSIVE SeqsUpTo(_, _)
SeqsUpTo(S, n) ==
    IF n = 0 THEN {<<>>}
    ELSE LET shorter == SeqsUpTo(S, n - 1)
         IN  shorter \cup {Append(q, x) : q \in shorter, x \in S}

\* Descriptors without magic, and with the magic "D", "S", "DS", "SD".
Descriptors ==
    [magic_bytes : {<<>>, <<68>>, <<83>>, <<68, 83>>, <<83, 68>>},
     magic_offset : {0, 1}]

IdentifyCall ==
    /\ fn = "identify_bytes"
    /\ fpc = "call"
    /\ result' = IdentifyBytes(args.configs, args.data)
    /\ fpc' = "done"
    /\ UNCHANGED <<fn, args, offset, fileVars, batchVars>>

InitIdentify ==
    /\ fn = "identify_bytes"
    /\ args \in [configs : SeqsUpTo(Descriptors, MaxConfigs),
                 data : SeqsUpTo({68, 83}, MaxDataLen)]
    /\ result = <<>>
    /\ offset = 0
    /\ fpc = "call"
    /\ FileIdle
    /\ BatchIdle

NextIdentify == IdentifyCall

SpecIdentify == InitIdentify /\ [][NextIdentify]_vars

\* C7: identify_bytes returns, each once, exactly the descriptors whose magic
\* is non-empty and equals the input bytes at the declared offset (so lies
\* wholly inside the input), longest magic first, equal lengths in registry
\* order.
C7_IdentifyBytes ==
    (fn = "identify_bytes" /\ fpc = "done") =>
        LET cfg(i) == args.configs[i]
            n(i) == Len(cfg(i).magic_bytes)
            matching ==
                {i \in 1..Len(args.configs) :
                    /\ n(i) > 0
                    /\ cfg(i).magic_offset + n(i) <= Len(args.data)
                    /\ \A k \in 1..n(i) :
                          args.data[cfg(i).magic_offset + k] = cfg(i).magic_bytes[k]}
        IN  /\ Range(result) = matching
            /\ Len(result) = Cardinality(matching)
            /\ \A p, q \in 1..Len(result) :
                  p < q => \/ n(result[p]) > n(result[q])
                           \/ n(result[p]) = n(result[q]) /\ result[p] < result[q]

\* C7 witness: three descriptors matched; the longest, registered last, comes
\* first, and the two of equal length keep their registry order.
C7_Witness ==
    /\ fn = "identify_bytes"
    /\ fpc = "done"
    /\ result = <<3, 1, 2>>
    /\ args.configs[1].magic_offset /= args.configs[2].magic_offset

(***************************************************************************)
(* Claims about the scanning pipeline                                      *)
(***************************************************************************)
StageLog == SelectSeq(trace, LAMBDA t : t.op = "stage")
ParserLog == SelectSeq(trace, LAMBDA t : t.op /= "stage")
CanParseLog == SelectSeq(trace, LAMBDA t : t.op = "can_parse")
ParseLog == SelectSeq(trace, LAMBDA t : t.op = "parse")

StageMessage(name) ==
    CASE name = "identify" -> "Identification error"
      [] name = "disambiguate" -> "Disambiguation error"
      [] name = "analyse" -> "Analysis error"
      [] name = "parse" -> "Parse error"
      [] name = "gdal" -> "GDAL check error"

FailedStages == SelectSeq(StageLog, LAMBDA t : ~t.ok)

\* C1: when scan_file has returned from an existing non-empty file, the stages
\* it entered are identify, (disambiguate), analyse, parse, (gdal when
\* requested) in that order - disambiguate at least whenever identification
\* raised - and the errors of the report are exactly one message per failed
\* stage, in stage order: no failure kept a later stage from running.
C1_EveryStageAttempted ==
    (pc = "done" /\ file.is_file /\ file.size > 0) =>
        LET names == [i \in 1..Len(StageLog) |-> StageLog[i].who]
            tail == IF scanner.check_gdal THEN <<"analyse", "parse", "gdal">>
                    ELSE <<"analyse", "parse">>
        IN  /\ names \in {<<"identify">> \o tail,
                          <<"identify", "disambiguate">> \o tail}
            /\ ~StageLog[1].ok => names[2] = "disambiguate"
            /\ report.errors =
                 [i \in 1..Len(FailedStages) |-> StageMessage(FailedStages[i].who)]

\* C1 witness: identification and disambiguation both raised, and the analysis
\* and the parse were still made and succeeded.
C1_Witness ==
    /\ pc = "done"
    /\ report.errors = <<"Identification error", "Disambiguation error">>
    /\ report.analysis /= <<>>
    /\ report.parse_result /= <<>>

EntryOf(path) ==
    IF root.cloud
    THEN CHOOSE o \in Range(root.listing) : <<"s3", o.path>> = path
    ELSE CHOOSE e \in root.entries : e.path = path

\* C2: the report of an empty file or object has the single error "Empty
\* file" and nothing else - no format, no analysis, no parse result, no probe
\* result - and download is never called for an empty object.
C2_EmptyShortCircuits ==
    /\ \A i \in 1..Len(reports) :
          EntryOf(reports[i].path).kind = "empty" =>
              /\ reports[i].errors = <<"Empty file">>
              /\ reports[i].size = 0
              /\ reports[i].identified_formats = <<>>
              /\ reports[i].analysis = <<>>
              /\ reports[i].parse_result = <<>>
              /\ reports[i].gdal_result = <<>>
    /\ root.cloud =>
          \A o \in Range(root.listing) :
              o.kind = "empty" => o.path \notin Range(downloads)

\* C2 witness: a cloud scan with the probe requested has reported an empty
\* object after downloading another one.
C2_Witness ==
    /\ bpc = "done"
    /\ root.cloud
    /\ scanner.check_gdal
    /\ downloads /= <<>>
    /\ \E i \in 1..Len(reports) :
          i > 1 /\ EntryOf(reports[i].path).kind = "empty"

\* A finished local scan of exactly three files, one well-formed, one empty
\* and one unreadable, with no extension filter.
ThreeFileBatch ==
    /\ bpc = "done"
    /\ ~root.cloud
    /\ recursive
    /\ scanner.extensions = <<>>
    /\ Cardinality({e \in root.entries : e.is_file}) = 3
    /\ {e.kind : e \in {e \in root.entries : e.is_file}} = {"ok", "empty", "unreadable"}

ErrorsOfKind(k) ==
    LET i == CHOOSE i \in 1..Len(reports) : EntryOf(reports[i].path).kind = k
    IN  reports[i].errors

\* C3 as stated: three reports; no error for the well-formed file, exactly
\* one error for the empty file and exactly one for the unreadable file.
C3_Original ==
    ThreeFileBatch =>
        /\ Len(reports) = 3
        /\ ErrorsOfKind("ok") = <<>>
        /\ Len(ErrorsOfKind("empty")) = 1
        /\ Len(ErrorsOfKind("unreadable")) = 1

\* C3 as amended: three reports; no error for the well-formed file, exactly
\* one error for the empty file, and for the unreadable file one error from
\* each of the four stages that read it, in stage order.
C3_OneErrorPerFailedStage ==
    ThreeFileBatch =>
        /\ Len(reports) = 3
        /\ ErrorsOfKind("ok") = <<>>
        /\ ErrorsOfKind("empty") = <<"Empty file">>
        /\ ErrorsOfKind("unreadable") =
             <<"Identification error", "Disambiguation error",
               "Analysis error", "Parse error">>

\* C3 witness: such a batch has been scanned, the unreadable file first.
C3_Witness ==
    /\ ThreeFileBatch
    /\ EntryOf(reports[1].path).kind = "unreadable"

\* The regular files or objects a scan of the root enumerates and keeps.
Selected ==
    IF root.cloud
    THEN {o \in Range(root.listing) : PassesFilter(o, scanner)}
    ELSE {e \in Enumerate(root, recursive) : e.is_file /\ PassesFilter(e, scanner)}

ReportPath(e) == IF root.cloud THEN <<"s3", e.path>> ELSE e.path

ReportPaths == [i \in 1..Len(reports) |-> reports[i].path]

\* C5 as stated: the reports of a local scan are in ascending order of the
\* path strings.
C5_Original ==
    (bpc = "done" /\ ~root.cloud) =>
        \A i, j \in 1..Len(reports) :
            i < j => StrLess(PathStr(ReportPaths[i]), PathStr(ReportPaths[j]))

\* C5 as amended: the reports of a local scan are in ascending order of the
\* paths compared component by component (each component as a string),
\* whatever order the iterator yielded them in; for a non-recursive scan
\* that is the order of the path strings.
C5_ComponentOrder ==
    (bpc = "done" /\ ~root.cloud) =>
        /\ \A i, j \in 1..Len(reports) :
              i < j => PartsLess(ReportPaths[i], ReportPaths[j])
        /\ ~recursive =>
              \A i, j \in 1..Len(reports) :
                  i < j => StrLess(PathStr(ReportPaths[i]), PathStr(ReportPaths[j]))

\* C5 witness: a recursive scan reported "a/b.grd" before "a.grd".
C5_Witness ==
    /\ bpc = "done"
    /\ ~root.cloud
    /\ recursive
    /\ \E i, j \in 1..Len(reports) :
          /\ i < j
          /\ ReportPaths[i] = <<<<97>>, <<98, 46, 103, 114, 100>>>>
          /\ ReportPaths[j] = <<<<97, 46, 103, 114, 100>>>>

Registry ==
    <<"surfer6", "surfer7", "ermapper", "encom", "geosoft", "zmap">> \o scanner.parsers

\* C6: once the parse stage has run, the capability tests made are a prefix
\* of the registry order, each on the leading sample, all refused but
\* possibly the last; an accepted test is followed by the one parse call, of
\* that parser on the full content, and nothing after it, whether it
\* returned errors or raised; with no test accepted every parser was tested,
\* parse_result is absent and no parse error is recorded.
C6_FirstMatchingParserOnly ==
    (pc \in {"gdal", "done"} /\ file.is_file /\ file.size > 0) =>
        LET n == Len(CanParseLog)
        IN  IF ParserLog = <<>>
            THEN /\ report.parse_result = <<>>
                 /\ "Parse error" \in Range(report.errors)
            ELSE
            /\ n >= 1 /\ n <= Len(Registry)
            /\ \A i \in 1..n :
                  /\ CanParseLog[i].who = Registry[i]
                  /\ CanParseLog[i].len = Min(file.size, scanner.max_sample)
                  /\ i < n => ~CanParseLog[i].ok
            /\ ParserLog = CanParseLog \o ParseLog
            /\ Len(ParseLog) = (IF CanParseLog[n].ok THEN 1 ELSE 0)
            /\ CanParseLog[n].ok =>
                  /\ ParseLog[1].who = CanParseLog[n].who
                  /\ ParseLog[1].len = file.size
                  /\ IF ParseLog[1].ok
                     THEN /\ report.parse_result /= <<>>
                          /\ report.parse_result[1].parser = ParseLog[1].who
                          /\ "Parse error" \notin Range(report.errors)
                     ELSE /\ report.parse_result = <<>>
                          /\ "Parse error" \in Range(report.errors)
            /\ ~CanParseLog[n].ok =>
                  /\ n = Len(Registry)
                  /\ report.parse_result = <<>>
                  /\ "Parse error" \notin Range(report.errors)

\* C6 witness: four parsers refused, the Geosoft parser accepted and raised.
C6_Witness ==
    /\ pc = "done"
    /\ Len(CanParseLog) = 5
    /\ Len(ParseLog) = 1
    /\ ParseLog[1].who = "geosoft"
    /\ ~ParseLog[1].ok

(***************************************************************************)
(* struct: little-endian fields read from a byte buffer.  A float is kept  *)
(* as the fields of its IEEE-754 bit pattern, so that decoding is exact.   *)
(***************************************************************************)
\* "<H": unsigned 16-bit integer at byte offset off (counted from 0).
U16(data, off) == data[off + 1] + 256 * data[off + 2]

\* "<f": sign, biased exponent and 23-bit fraction of the float32 at off.
F32(data, off) ==
    [s |-> data[off + 4] \div 128,
     e |-> (data[off + 4] % 128) * 2 + data[off + 3] \div 128,
     m |-> (data[off + 3] % 128) * 65536 + data[off + 2] * 256 + data[off + 1]]

\* "<d": sign, biased exponent and 52-bit fraction (top 20 bits, then two
\* groups of 16 bits) of the float64 at off.
F64(data, off) ==
    [s |-> data[off + 8] \div 128,
     e |-> (data[off + 8] % 128) * 16 + data[off + 7] \div 16,
     hi |-> (data[off + 7] % 16) * 65536 + data[off + 6] * 256 + data[off + 5],
     mid |-> data[off + 4] * 256 + data[off + 3],
     lo |-> data[off + 2] * 256 + data[off + 1]]

\* "<I": unsigned 32-bit integer at off.  The buffers explored keep its top
\* byte under 128, so the value and the offsets computed from it stay below
\* 2^31.
U32(data, off) ==
    data[off + 1] + 256 * data[off + 2] + 65536 * data[off + 3]
        + 16777216 * data[off + 4]

\* struct.unpack_from("<{n}f", data, off): n float32 values, or struct.error
\* when the buffer holds fewer than 4n bytes from off.
UnpackFloats(n, data, off) ==
    IF off + 4 * n > Len(data) THEN Raised
    ELSE Returned([i \in 1..n |-> F32(data, off + 4 * (i - 1))])

\* struct.unpack_from("<{n}d", data, off), likewise for float64.
UnpackDoubles(n, data, off) ==
    IF off + 8 * n > Len(data) THEN Raised
    ELSE Returned([i \in 1..n |-> F64(data, off + 8 * (i - 1))])

\* The bytes struct.pack writes for the same fields; used to build inputs.
PackU16(v) == <<v % 256, v \div 256>>

PackU32(v) ==
    <<v % 256, (v \div 256) % 256, (v \div 65536) % 256, v \div 16777216>>

PackF32(x) ==
    <<x.m % 256, (x.m \div 256) % 256,
      (x.e % 2) * 128 + x.m \div 65536, x.s * 128 + x.e \div 2>>

PackF64(x) ==
    <<x.lo % 256, x.lo \div 256, x.mid % 256, x.mid \div 256,
      x.hi % 256, (x.hi \div 256) % 256,
      (x.e % 16) * 16 + x.hi \div 65536, x.s * 128 + x.e \div 16>>

RECURSIVE Flatten(_)
Flatten(ss) == IF ss = <<>> THEN <<>> ELSE ss[1] \o Flatten(Tail(ss))

\* A ParseResult as its constructor leaves it; an error is its message and
\* the values formatted into it.
ParseResult(format_name) ==
    [format_name |-> format_name, header |-> <<>>, data |-> <<>>,
     shape |-> <<>>, metadata |-> <<>>, errors |-> <<>>]

ParseError(msg, detail) == [msg |-> msg, detail |-> detail]

(***************************************************************************)
(* Surfer6Parser                                                           *)
(***************************************************************************)
SURFER6_MAGIC == <<68, 83, 66, 66>>
Surfer6HeaderSize == 56

\* Mutant: as many values as the header declares.
Surfer6DeclaredCount(payload, nx, ny) == nx * ny

\* n_values = len(payload) // 4
Surfer6ValueCount(payload, nx, ny) == Len(payload) \div 4

Surfer6Parse(data) ==
    LET new == ParseResult("Surfer 6 Binary Grid")
        magic == Slice(data, 0, 4)
    IN  IF Len(data) < Surfer6HeaderSize
        THEN Returned([new EXCEPT !.errors = <<ParseError(
                 "File too small for Surfer 6 header", <<>>)>>])
        ELSE IF magic /= SURFER6_MAGIC
        THEN Returned([new EXCEPT !.errors = <<ParseError("Invalid magic", magic)>>])
        ELSE
        LET nx == U16(data, 4)
            ny == U16(data, 6)
            d == UnpackDoubles(6, data, 8).value
            header == [nx |-> nx, ny |-> ny, xlo |-> d[1], xhi |-> d[2],
                       ylo |-> d[3], yhi |-> d[4], zlo |-> d[5], zhi |-> d[6]]
            expected_bytes == nx * ny * 4
            payload == Slice(data, Surfer6HeaderSize,
                             Surfer6HeaderSize + expected_bytes)
            errors == IF Len(payload) < expected_bytes
                      THEN <<ParseError("Payload truncated",
                                        <<expected_bytes, Len(payload)>>)>>
                      ELSE <<>>
            n_values == Surfer6ValueCount(payload, nx, ny)
            values == UnpackFloats(n_values, payload, 0)
        IN  IF values.raised THEN Raised
            ELSE Returned([new EXCEPT !.header = <<header>>,
                                      !.shape = <<ny, nx>>,
                                      !.errors = errors,
                                      !.data = values.value])

\* Inputs: a header declaring nx by ny nodes, followed by some float32 values
\* and up to three bytes of a further one.
MaxDim == 2
MaxValues == 5

Float32s == {[s |-> 0, e |-> 127, m |-> 0],          \* 1.0
             [s |-> 1, e |-> 128, m |-> 2097152]}    \* -2.5
Float64s == {[s |-> 0, e |-> 0, hi |-> 0, mid |-> 0, lo |-> 0],          \* 0.0
             [s |-> 0, e |-> 1027, hi |-> 262144, mid |-> 513, lo |-> 7]}

Surfer6Buffer(g) ==
    g.magic \o PackU16(g.nx) \o PackU16(g.ny)
        \o Flatten([i \in 1..6 |-> PackF64(g.bounds[i])])
        \o Flatten([i \in 1..Len(g.values) |-> PackF32(g.values[i])])
        \o SubSeq(<<0, 0, 128>>, 1, g.extra)

Surfer6Grids ==
    [magic : {SURFER6_MAGIC, <<68, 83, 82, 66>>},
     nx : 0..MaxDim \cup {256}, ny : 0..MaxDim,
     bounds : {[i \in 1..6 |-> IF i % 2 = 1 THEN lo ELSE hi] :
                   lo \in Float64s, hi \in Float64s},
     values : SeqsUpTo(Float32s, MaxValues),
     extra : {0, 3}]

Surfer6Call ==
    /\ fn = "surfer6.parse"
    /\ fpc = "call"
    /\ result' = Surfer6Parse(args.data)
    /\ fpc' = "done"
    /\ UNCHANGED <<fn, args, offset, fileVars, batchVars>>

InitSurfer6 ==
    /\ fn = "surfer6.parse"
    /\ \/ \E g \in Surfer6Grids : args = [data |-> Surfer6Buffer(g), given |-> <<g>>]
       \/ \E n \in {0, 4, 55} :
             args = [data |-> SubSeq(Surfer6Buffer(CHOOSE g \in Surfer6Grids :
                                 g.magic = SURFER6_MAGIC /\ g.values = <<>>
                                 /\ g.extra = 0), 1, n),
                     given |-> <<>>]
    /\ result = <<>>
    /\ offset = 0
    /\ fpc = "call"
    /\ FileIdle
    /\ BatchIdle

NextSurfer6 == Surfer6Call

SpecSurfer6 == InitSurfer6 /\ [][NextSurfer6]_vars

\* C8: on a buffer of at least 56 bytes that starts with DSBB, with P bytes
\* after the header, Surfer6Parser.parse does not raise, sets shape to
\* (ny, nx), returns the first min(nx*ny, P div 4) float32 values of the
\* payload in file order, and records one truncation error when P < nx*ny*4
\* and no error otherwise.
C8_Surfer6Truncation ==
    (/\ fn = "surfer6.parse" /\ fpc = "done"
     /\ Len(args.data) >= 56
     /\ SubSeq(args.data, 1, 4) = <<68, 83, 66, 66>>) =>
        LET g == args.given[1]
            P == Len(args.data) - 56
            declared == g.nx * g.ny
            count == Min(declared, P \div 4)
        IN  /\ ~result.raised
            /\ result.value.shape = <<g.ny, g.nx>>
            /\ result.value.data = SubSeq(g.values, 1, count)
            /\ IF P < declared * 4
               THEN /\ Len(result.value.errors) = 1
                    /\ result.value.errors[1].msg = "Payload truncated"
               ELSE result.value.errors = <<>>
            /\ (P >= declared * 4) => Len(result.value.data) = declared

\* C8 witness: a 2 by 2 grid whose payload stops inside the fourth value; the
\* three whole values are returned with the truncation error.
C8_Witness ==
    /\ fn = "surfer6.parse" /\ fpc = "done"
    /\ args.given /= <<>>
    /\ args.given[1].magic = <<68, 83, 66, 66>>
    /\ args.given[1].nx = 2 /\ args.given[1].ny = 2
    /\ Len(args.data) = 56 + 15
    /\ ~result.raised
    /\ Len(result.value.data) = 3
    /\ result.value.data[1] /= result.value.data[2]
    /\ Len(result.value.errors) = 1

(***************************************************************************)
(* Surfer7Parser                                                           *)
(***************************************************************************)
SURFER7_MAGIC == <<68, 83, 82, 66>>
TAG_HEADER == 1112691524
TAG_GRID == 1145655879
GridHeaderSize == 72

\* Mutant: the offset returned is the one given, the tag is not consumed.
ReadTagInPlace(data, off) ==
    IF off + 8 > Len(data)
    THEN [tag_id |-> 0, tag_size |-> 0, next |-> Len(data)]
    ELSE [tag_id |-> U32(data, off), tag_size |-> U32(data, off + 4),
          next |-> off]

\* _read_tag: (id, size, next_offset)
ReadTag(data, off) ==
    IF off + 8 > Len(data)
    THEN [tag_id |-> 0, tag_size |-> 0, next |-> Len(data)]
    ELSE [tag_id |-> U32(data, off), tag_size |-> U32(data, off + 4),
          next |-> off + 8]

\* _parse_grid_section(data, offset, size, result): the result afterwards, as
\* a call outcome since struct.unpack_from raises on a short buffer.
ParseGridSection(data, off, size, res) ==
    IF size < GridHeaderSize
    THEN Returned([res EXCEPT !.errors =
                      Append(@, ParseError("Grid section too small", <<>>))])
    ELSE IF off + 8 > Len(data) \/ UnpackDoubles(8, data, off + 8).raised
    THEN Raised
    ELSE
    LET ny == U32(data, off)
        nx == U32(data, off + 4)
        d == UnpackDoubles(8, data, off + 8).value
        header == [nx |-> nx, ny |-> ny, xlo |-> d[1], ylo |-> d[2],
                   xsize |-> d[3], ysize |-> d[4], zmin |-> d[5],
                   zmax |-> d[6], rotation |-> d[7], blank_value |-> d[8]]
        payload_offset == off + GridHeaderSize
        expected_bytes == nx * ny * 8
        payload == Slice(data, payload_offset, payload_offset + expected_bytes)
        n_values == Len(payload) \div 8
        withData == IF n_values > 0
                    THEN [res EXCEPT !.header = <<header>>, !.shape = <<ny, nx>>,
                              !.data = UnpackDoubles(n_values, payload, 0).value]
                    ELSE [res EXCEPT !.header = <<header>>, !.shape = <<ny, nx>>]
    IN  Returned(IF Len(payload) < expected_bytes
                 THEN [withData EXCEPT !.errors =
                          Append(@, ParseError("Grid payload truncated", <<>>))]
                 ELSE withData)

\* parse, up to the loop.
Surfer7Enter ==
    /\ fn = "surfer7.parse"
    /\ fpc = "call"
    /\ LET new == ParseResult("Surfer 7 Binary Grid")
       IN  IF Len(args.data) < 8 \/ Slice(args.data, 0, 4) /= SURFER7_MAGIC
           THEN /\ result' = Returned([new EXCEPT !.errors =
                                 <<ParseError("Not a valid Surfer 7 file", <<>>)>>])
                /\ fpc' = "done"
           ELSE /\ result' = Returned(new)
                /\ fpc' = "loop"
    /\ offset' = 0
    /\ UNCHANGED <<fn, args, fileVars, batchVars>>

\* One pass of the while loop: read a tag, parse it when it is a grid section
\* that lies inside the buffer, move past it, and stop on an empty tag.
Surfer7Tag ==
    /\ fn = "surfer7.parse"
    /\ fpc = "loop"
    /\ offset + 8 <= Len(args.data)
    /\ LET tag == ReadTag(args.data, offset)
           content_offset == tag.next
           section == ParseGridSection(args.data, content_offset, tag.tag_size,
                                       result.value)
       IN  IF tag.tag_id = TAG_GRID /\ content_offset + tag.tag_size <= Len(args.data)
           THEN IF section.raised
                THEN /\ result' = Raised
                     /\ fpc' = "done"
                     /\ UNCHANGED offset
                ELSE /\ result' = section
                     /\ offset' = content_offset + tag.tag_size
                     /\ fpc' = IF tag.tag_size = 0 THEN "done" ELSE "loop"
           ELSE /\ UNCHANGED result
                /\ offset' = content_offset + tag.tag_size
                /\ fpc' = IF tag.tag_size = 0 THEN "done" ELSE "loop"
    /\ UNCHANGED <<fn, args, fileVars, batchVars>>

\* The loop condition fails: return result.
Surfer7Return ==
    /\ fn = "surfer7.parse"
    /\ fpc = "loop"
    /\ offset + 8 > Len(args.data)
    /\ fpc' = "done"
    /\ UNCHANGED <<fn, args, result, offset, fileVars, batchVars>>

\* Inputs: the DSRB tag with hs bytes of content, optionally an unrelated
\* section, then a GRID tag, the 72-byte grid header declaring ny by nx
\* nodes, some float64 values and stray bytes.  The GRID tag declares a size
\* too small for the grid header, the grid header alone, or the grid header
\* and all nx*ny values; the buffer is whole, or cut after the GRID tag, or
\* cut after the two dimensions.
MaxGridValues == 2

Surfer7GridOffset(g) == 8 + g.hs + (IF g.pre THEN 12 ELSE 0)

Surfer7DeclaredSize(g) ==
    CASE g.size = "small" -> 8
      [] g.size = "header" -> GridHeaderSize
      [] g.size = "full" -> GridHeaderSize + 8 * g.nx * g.ny

Surfer7Buffer(g) ==
    LET whole ==
            SURFER7_MAGIC \o PackU32(g.hs) \o [i \in 1..g.hs |-> 0]
                \o (IF g.pre THEN <<73, 78, 70, 79>> \o PackU32(4) \o <<1, 0, 0, 0>>
                    ELSE <<>>)
                \o <<71, 82, 73, 68>> \o PackU32(Surfer7DeclaredSize(g))
                \o PackU32(g.ny) \o PackU32(g.nx)
                \o Flatten([i \in 1..8 |-> PackF64(g.geometry)])
                \o Flatten([i \in 1..Len(g.values) |-> PackF64(g.values[i])])
                \o SubSeq(<<1, 2, 3, 4, 5>>, 1, g.extra)
        keep == CASE g.keep = "all" -> Len(whole)
                  [] g.keep = "tag" -> Surfer7GridOffset(g) + 8
                  [] g.keep = "dims" -> Surfer7GridOffset(g) + 16
    IN  SubSeq(whole, 1, keep)

Surfer7Grids ==
    [hs : {0, 4}, pre : BOOLEAN, size : {"small", "header", "full"},
     nx : 0..MaxDim, ny : 0..MaxDim,
     geometry : {[s |-> 0, e |-> 1027, hi |-> 262144, mid |-> 513, lo |-> 7]},
     values : SeqsUpTo(Float64s, MaxGridValues), extra : {0, 5},
     keep : {"all", "tag", "dims"}]

InitSurfer7 ==
    /\ fn = "surfer7.parse"
    /\ \/ \E g \in Surfer7Grids : args = [data |-> Surfer7Buffer(g), given |-> <<g>>]
       \/ \E d \in {<<>>, SURFER7_MAGIC, SURFER6_MAGIC \o PackU32(4) \o <<1, 0, 0, 0>>} :
             args = [data |-> d, given |-> <<>>]
    /\ result = <<>>
    /\ offset = 0
    /\ fpc = "call"
    /\ FileIdle
    /\ BatchIdle

NextSurfer7 ==
    \/ Surfer7Enter
    \/ Surfer7Tag
    \/ Surfer7Return

SpecSurfer7 == InitSurfer7 /\ [][NextSurfer7]_vars

\* The grid section of a built buffer is truncated: the GRID tag and the
\* whole grid header are in the buffer, and fewer than nx*ny*8 bytes follow.
Surfer7PayloadPresent == Len(args.data) - (Surfer7GridOffset(args.given[1]) + 8 + 72)

Surfer7TruncatedGrid ==
    /\ fn = "surfer7.parse"
    /\ args.given /= <<>>
    /\ Surfer7PayloadPresent >= 0
    /\ Surfer7PayloadPresent < args.given[1].nx * args.given[1].ny * 8

\* C9: when Surfer7Parser.parse has returned from a buffer that starts with
\* DSRB and holds a grid section with fewer payload bytes than the declared
\* nx*ny*8, the result carries the truncation error, the decoded grid header
\* and the values that are wholly present.
C9_Surfer7Truncation ==
    (fpc = "done" /\ Surfer7TruncatedGrid) =>
        LET g == args.given[1]
            whole == Min(Len(g.values), Surfer7PayloadPresent \div 8)
        IN  /\ ~result.raised
            /\ \E i \in 1..Len(result.value.errors) :
                  result.value.errors[i].msg = "Grid payload truncated"
            /\ result.value.header /= <<>>
            /\ result.value.header[1].nx = g.nx
            /\ result.value.header[1].ny = g.ny
            /\ result.value.header[1].blank_value = g.geometry
            /\ result.value.data = SubSeq(g.values, 1, whole)

\* C9, its last clause alone: a truncated grid never gives a result that is
\* empty and has no error.  Refuted by the state of C9_SilentlySkipped.
C9_NeverEmptyWithoutError ==
    (fpc = "done" /\ Surfer7TruncatedGrid) =>
        ~(/\ ~result.raised
          /\ result.value.errors = <<>>
          /\ result.value.header = <<>>
          /\ result.value.data = <<>>)

\* The case the parser does handle: the GRID tag declares no more than the
\* buffer holds, and the payload is short of nx*ny*8.
C9_ReportedWhenSectionInside ==
    (/\ fpc = "done" /\ Surfer7TruncatedGrid
     /\ args.given[1].hs > 0
     /\ args.given[1].size /= "small"
     /\ Surfer7GridOffset(args.given[1]) + 8 + Surfer7DeclaredSize(args.given[1])
            <= Len(args.data)) =>
        /\ ~result.raised
        /\ \E i \in 1..Len(result.value.errors) :
              result.value.errors[i].msg = "Grid payload truncated"
        /\ result.value.header /= <<>>
        /\ result.value.header[1].nx = args.given[1].nx
        /\ result.value.data =
              SubSeq(args.given[1].values, 1,
                     Min(Len(args.given[1].values), Surfer7PayloadPresent \div 8))

\* A truncated file as it occurs: the GRID tag declares the full 1 by 2 grid,
\* one of the two values is present, and parse returns nothing at all.
C9_SilentlySkipped ==
    /\ fpc = "done" /\ Surfer7TruncatedGrid
    /\ args.given[1].hs = 4 /\ ~args.given[1].pre
    /\ args.given[1].size = "full" /\ args.given[1].keep = "all"
    /\ args.given[1].ny = 1 /\ args.given[1].nx = 2
    /\ Len(args.given[1].values) = 1 /\ args.given[1].extra = 0
    /\ ~result.raised
    /\ result.value.errors = <<>>
    /\ result.value.header = <<>>
    /\ result.value.data = <<>>

(***************************************************************************)
(* Numbers for the Geosoft parser: signed fields, and the value of a float *)
(* as an exact fraction <<n, d>> in lowest terms.  The buffers explored    *)
(* hold floats that are zero or normal with few fraction bits, on which    *)
(* Python's float arithmetic is exact.                                     *)
(***************************************************************************)
\* "<i": signed 32-bit integer at off.
I32(data, off) ==
    data[off + 1] + 256 * data[off + 2] + 65536 * data[off + 3]
        + 16777216 * (IF data[off + 4] >= 128 THEN data[off + 4] - 256
                      ELSE data[off + 4])

\* "<q": signed 64-bit integer at off; the buffers explored hold only values
\* of 0 .. 2^31 - 1 in such fields.
I64(data, off) ==
    CASE Slice(data, off + 4, off + 8) = <<0, 0, 0, 0>> /\ data[off + 4] < 128 ->
            U32(data, off)

PackI32(v) ==
    IF v >= 0 THEN PackU32(v)
    ELSE LET w == (v + 2147483647) + 1
         IN  <<w % 256, (w \div 256) % 256, (w \div 65536) % 256,
               w \div 16777216 + 128>>

RECURSIVE GCD(_, _)
GCD(a, b) == IF b = 0 THEN a ELSE GCD(b, a % b)

Abs(n) == IF n < 0 THEN -n ELSE n

RECURSIVE Pow2(_)
Pow2(k) == IF k = 0 THEN 1 ELSE 2 * Pow2(k - 1)

Fraction(n, d) ==
    LET g == GCD(Abs(n), Abs(d))
        sgn == IF d < 0 THEN -1 ELSE 1
    IN  <<sgn * (n \div g), sgn * (d \div g)>>

FracAdd(x, y) == Fraction(x[1] * y[2] + y[1] * x[2], x[2] * y[2])
FracDiv(x, y) == Fraction(x[1] * y[2], x[2] * y[1])

\* significand * 2^exponent, the significand first made odd.
RECURSIVE Scaled2(_, _, _)
Scaled2(sign, significand, exponent) ==
    IF significand /= 0 /\ significand % 2 = 0
    THEN Scaled2(sign, significand \div 2, exponent + 1)
    ELSE LET sgn == IF sign = 1 THEN -1 ELSE 1
         IN  IF exponent >= 0 THEN <<sgn * significand * Pow2(exponent), 1>>
             ELSE <<sgn * significand, Pow2(-exponent)>>

\* The value of a float32 with fields x that is zero or normal.
FloatValue(x) ==
    CASE x.e = 0 /\ x.m = 0 -> <<0, 1>>
      [] x.e \in 1..254 -> Scaled2(x.s, 8388608 + x.m, x.e - 150)

\* The value of a float64 with fields x that is zero, or normal with at most
\* 20 fraction bits.
DoubleValue(x) ==
    CASE x.e = 0 /\ x.hi = 0 /\ x.mid = 0 /\ x.lo = 0 -> <<0, 1>>
      [] x.e \in 1..2046 /\ x.mid = 0 /\ x.lo = 0 ->
            Scaled2(x.s, 1048576 + x.hi, x.e - 1043)

\* x == 0 for a float64 (either sign of zero).
DoubleIsZero(x) == x.e = 0 /\ x.hi = 0 /\ x.mid = 0 /\ x.lo = 0

\* x <= -1e32 for a float32 and for a float64: negative, not NaN, and the
\* magnitude at least that of 1e32.
FloatAtMostDummy(x) ==
    /\ x.s = 1
    /\ ~(x.e = 255 /\ x.m /= 0)
    /\ (x.e > 233 \/ (x.e = 233 /\ x.m >= 1951150))

DoubleAtMostDummy(x) ==
    /\ x.s = 1
    /\ ~(x.e = 2047 /\ (x.hi /= 0 \/ x.mid /= 0 \/ x.lo /= 0))
    /\ \/ x.e > 1129
       \/ x.e = 1129 /\ x.hi > 243893
       \/ x.e = 1129 /\ x.hi = 243893 /\ x.mid > 46341
       \/ x.e = 1129 /\ x.hi = 243893 /\ x.mid = 46341 /\ x.lo >= 28183

(***************************************************************************)
(* zlib.decompress, for streams made of one stored (uncompressed) block;   *)
(* anything that does not start as a zlib stream is rejected.              *)
(***************************************************************************)
RECURSIVE Adler(_, _, _)
Adler(bytes, a, b) ==
    IF bytes = <<>> THEN <<b \div 256, b % 256, a \div 256, a % 256>>
    ELSE Adler(Tail(bytes), (a + bytes[1]) % 65521,
               (b + ((a + bytes[1]) % 65521)) % 65521)

ZlibStored(bytes) ==
    <<120, 1, 1, Len(bytes) % 256, Len(bytes) \div 256,
      255 - (Len(bytes) % 256), 255 - (Len(bytes) \div 256)>>
        \o bytes \o Adler(bytes, 1, 0)

ZlibDecompress(stream) ==
    IF Len(stream) < 2 THEN Raised
    ELSE IF stream[1] % 16 /= 8 \/ stream[1] \div 16 > 7
            \/ (stream[1] * 256 + stream[2]) % 31 /= 0
            \/ (stream[2] \div 32) % 2 = 1
    THEN Raised
    ELSE IF Len(stream) < 7 THEN Raised
    ELSE CASE stream[3] = 1 ->
            LET n == stream[4] + 256 * stream[5]
                body == Slice(stream, 7, 7 + n)
            IN  IF stream[6] + 256 * stream[7] /= 65535 - n THEN Raised
                ELSE IF Len(stream) < 7 + n + 4 THEN Raised
                ELSE IF Slice(stream, 7 + n, 7 + n + 4) /= Adler(body, 1, 0)
                THEN Raised
                ELSE Returned(body)

(***************************************************************************)
(* GeosoftParser                                                           *)
(***************************************************************************)
GeosoftHeaderSize == 512
VALID_ES == {1, 2, 4, 8, 1025, 1026, 1028, 1032}

\* _data_type_code: the array type code for element size es and sign flag sf.
DataTypeCode(es, sf) ==
    LET size == IF es > 1024 THEN es - 1024 ELSE es
    IN  CASE size = 1 /\ sf = 0 -> "B"
          [] size = 1 /\ sf = 1 -> "b"
          [] size = 2 /\ sf = 0 -> "H"
          [] size = 2 /\ sf = 1 -> "h"
          [] size = 4 /\ sf = 0 -> "I"
          [] size = 4 /\ sf = 1 -> "i"
          [] size = 4 /\ sf = 2 -> "f"
          [] size = 8 /\ sf \in {0, 1, 2} -> "d"
          [] OTHER -> "f"

\* array.array's item size for a type code.
ItemSize(tc) ==
    CASE tc \in {"B", "b"} -> 1
      [] tc \in {"H", "h"} -> 2
      [] tc \in {"I", "i", "f"} -> 4
      [] tc = "d" -> 8

\* array.array(tc, payload): the items, each as its bytes, or ValueError when
\* the length is not a multiple of the item size.
ArrayOf(tc, payload) ==
    IF Len(payload) % ItemSize(tc) /= 0 THEN Raised
    ELSE Returned([i \in 1..(Len(payload) \div ItemSize(tc)) |->
                      SubSeq(payload, (i - 1) * ItemSize(tc) + 1, i * ItemSize(tc))])

\* An integer item as a number.
IntItem(tc, item) ==
    CASE tc = "B" -> item[1]
      [] tc = "b" -> IF item[1] >= 128 THEN item[1] - 256 ELSE item[1]
      [] tc = "H" -> U16(item, 0)
      [] tc = "h" -> IF U16(item, 0) >= 32768 THEN U16(item, 0) - 65536
                     ELSE U16(item, 0)
      [] tc = "I" -> U32(item, 0)
      [] tc = "i" -> I32(item, 0)

\* _DUMMIES for the integer type codes; that of "I", 4294967295, is the item
\* with all bits set.
Dummies(tc) ==
    CASE tc = "b" -> -127
      [] tc = "B" -> 255
      [] tc = "h" -> -32767
      [] tc = "H" -> 65535
      [] tc = "i" -> -2147483647

\* Mutant: every type code is tested with v <= dummy.
ItemAtMostDummy(tc, item) ==
    CASE tc = "f" -> FloatAtMostDummy(F32(item, 0))
      [] tc = "d" -> DoubleAtMostDummy(F64(item, 0))
      [] tc = "I" -> item = <<255, 255, 255, 255>>
      [] OTHER -> IntItem(tc, item) <= Dummies(tc)

\* The test of the scaling loop that sends an item to None.
ItemIsDummy(tc, item) ==
    CASE tc = "f" -> FloatAtMostDummy(F32(item, 0))
      [] tc = "d" -> DoubleAtMostDummy(F64(item, 0))
      [] tc = "I" -> item = <<255, 255, 255, 255>>
      [] OTHER -> IntItem(tc, item) = Dummies(tc)

ItemValue(tc, item) ==
    CASE tc = "f" -> FloatValue(F32(item, 0))
      [] tc = "d" -> DoubleValue(F64(item, 0))
      [] OTHER -> <<IntItem(tc, item), 1>>

\* _decompress(payload): the joined blocks, or the exception of a struct
\* read or of zlib.  Block offsets in the buffers explored are at least 496.
RECURSIVE DecompressBlocks(_, _, _, _)
DecompressBlocks(payload, n_blocks, off, i) ==
    IF i > n_blocks THEN Returned(<<>>)
    ELSE LET start == I64(payload, 16 + 8 * (i - 1)) - GeosoftHeaderSize + 16
             end == start + I32(payload, off + 4 * (i - 1))
             part == ZlibDecompress(Slice(payload, start, end))
             rest == DecompressBlocks(payload, n_blocks, off, i + 1)
         IN  IF part.raised THEN Raised
             ELSE IF rest.raised THEN Raised
             ELSE Returned(part.value \o rest.value)

Decompress(payload) ==
    IF Len(payload) < 16 THEN Raised
    ELSE LET n_blocks == I32(payload, 8)
             off == 16 + n_blocks * 8
         IN  IF n_blocks < 0 THEN Raised
             ELSE IF off + 4 * n_blocks > Len(payload) THEN Raised
             ELSE DecompressBlocks(payload, n_blocks, off, 1)

\* _read_header(hdr)
ReadHeader(hdr) ==
    [n_bytes_per_element |-> I32(hdr, 0), sign_flag |-> I32(hdr, 4),
     shape_e |-> I32(hdr, 8), shape_v |-> I32(hdr, 12), ordering |-> I32(hdr, 16),
     spacing_e |-> F64(hdr, 20), spacing_v |-> F64(hdr, 28),
     x_origin |-> F64(hdr, 36), y_origin |-> F64(hdr, 44),
     rotation |-> F64(hdr, 52),
     base_value |-> F64(hdr, 60), data_factor |-> F64(hdr, 68)]

\* The scaling loop from item i on: None for a dummy, v / zmult + zbase
\* otherwise, ZeroDivisionError when that division is by zero.
RECURSIVE ScaleFrom(_, _, _, _, _, _)
ScaleFrom(tc, values, zmult, zbase, i, scaled) ==
    IF i > Len(values) THEN Returned(scaled)
    ELSE IF ItemIsDummy(tc, values[i])
    THEN ScaleFrom(tc, values, zmult, zbase, i + 1, Append(scaled, <<>>))
    ELSE IF DoubleIsZero(zmult) THEN Raised
    ELSE ScaleFrom(tc, values, zmult, zbase, i + 1,
                   Append(scaled, <<FracAdd(FracDiv(ItemValue(tc, values[i]),
                                                    DoubleValue(zmult)),
                                            DoubleValue(zbase))>>))

GeosoftParse(data) ==
    LET new == ParseResult("Geosoft Binary Grid")
    IN  IF Len(data) < GeosoftHeaderSize
        THEN Returned([new EXCEPT !.errors = <<ParseError(
                 "File too small for Geosoft header", <<>>)>>])
        ELSE
        LET hdr == ReadHeader(Slice(data, 0, GeosoftHeaderSize))
            es == hdr.n_bytes_per_element
            sf == hdr.sign_flag
            withHeader == [new EXCEPT !.header = <<hdr>>,
                                      !.shape = <<hdr.shape_v, hdr.shape_e>>]
            tc == DataTypeCode(es, sf)
            raw == Slice(data, GeosoftHeaderSize, Len(data))
            unpacked == IF es > 1024 THEN Decompress(raw) ELSE Returned(raw)
        IN  IF unpacked.raised
            THEN Returned([withHeader EXCEPT !.errors =
                              <<ParseError("Decompression failed", <<>>)>>])
            ELSE
            LET values == ArrayOf(tc, unpacked.value)
            IN  IF values.raised
                THEN Returned([withHeader EXCEPT !.errors =
                                  <<ParseError("Array decode failed", <<>>)>>])
                ELSE
                LET scaled == ScaleFrom(tc, values.value, hdr.data_factor,
                                        hdr.base_value, 1, <<>>)
                IN  IF scaled.raised THEN Raised
                    ELSE Returned([withHeader EXCEPT
                             !.data = scaled.value,
                             !.metadata = <<[null_count |-> Cardinality(
                                 {i \in 1..Len(scaled.value) :
                                     scaled.value[i] = <<>>})]>>])

\* Inputs: a 512-byte header with the given fields, zero elsewhere, and a
\* payload chosen for the header's type code.
Zero64 == [s |-> 0, e |-> 0, hi |-> 0, mid |-> 0, lo |-> 0]
One64 == [s |-> 0, e |-> 1023, hi |-> 0, mid |-> 0, lo |-> 0]
Two64 == [s |-> 0, e |-> 1024, hi |-> 0, mid |-> 0, lo |-> 0]
\* -1e32, the sentinel of the float type codes
Dummy64 == [s |-> 1, e |-> 1129, hi |-> 243893, mid |-> 46341, lo |-> 28183]

GeosoftHeaders ==
    [es : {1, 2, 3, 4, 8, 1028}, sf : {0, 1, 2, 3}, ne : {1, 0, -1}, nv : {1},
     kx : {1, 0}, zmult : {Zero64, One64, Two64}, zbase : {Zero64, One64}]

GeosoftHeaderBytes(h) ==
    LET fields ==
            PackI32(h.es) \o PackI32(h.sf) \o PackI32(h.ne) \o PackI32(h.nv)
                \o PackI32(h.kx)
                \o PackF64(One64) \o PackF64(One64) \o PackF64(Zero64)
                \o PackF64(Zero64) \o PackF64(Zero64)
                \o PackF64(h.zbase) \o PackF64(h.zmult)
    IN  fields \o [i \in 1..(GeosoftHeaderSize - Len(fields)) |-> 0]

\* Uncompressed element data for a type code: whole items, among them the
\* type's sentinel and a value just below it, and a payload that ends inside
\* an item.
ElementData(tc) ==
    CASE tc = "B" -> {<<>>, <<3>>, <<3, 255>>}
      [] tc = "b" -> {<<3>>, <<129, 3>>, <<128>>}
      [] tc = "H" -> {<<3, 0>>, <<255, 255, 3, 0>>, <<3>>}
      [] tc = "h" -> {<<3, 0>>, <<1, 128>>, <<0, 128>>}
      [] tc = "I" -> {<<2, 0, 0, 0>>, <<255, 255, 255, 255>>, <<1, 2, 3>>}
      [] tc = "i" -> {<<254, 255, 255, 255>>, <<1, 0, 0, 128>>, <<>>}
      [] tc = "f" -> {<<0, 0, 128, 63>>, <<174, 197, 157, 244>>,
                      <<0, 0, 128, 63, 0, 0, 0, 192>>, <<1, 2, 3>>}
      [] tc = "d" -> {PackF64(One64), PackF64(Dummy64) \o PackF64(Two64),
                      <<1, 2, 3, 4>>}

\* A compressed payload holding the blocks given: eight unused bytes, the
\* block count, the vectors per block, the block offsets counted from the
\* start of a file that has a further 16 bytes before the directory, the
\* block sizes, and the blocks.
RECURSIVE BlockOffsets(_, _)
BlockOffsets(blocks, at) ==
    IF blocks = <<>> THEN <<>>
    ELSE PackU32(at) \o <<0, 0, 0, 0>>
             \o BlockOffsets(Tail(blocks), at + Len(blocks[1]))

Compressed(blocks) ==
    LET n == Len(blocks)
        first == 16 + 12 * n
    IN  <<0, 0, 0, 0, 0, 0, 0, 0>> \o PackI32(n) \o PackI32(1)
            \o BlockOffsets(blocks, first + GeosoftHeaderSize - 16)
            \o Flatten([i \in 1..n |-> PackI32(Len(blocks[i]))])
            \o Flatten(blocks)

GeosoftPayloads(h) ==
    LET tc == DataTypeCode(h.es, h.sf)
    IN  IF h.es > 1024
        THEN {Compressed(<<ZlibStored(d)>>) : d \in ElementData(tc)}
                 \cup {Compressed(<<>>), Compressed(<<<<0, 0, 0>>>>), <<1, 2, 3>>,
                       <<0, 0, 0, 0, 0, 0, 0, 0>> \o PackI32(-1) \o PackI32(1),
                       <<0, 0, 0, 0, 0, 0, 0, 0>> \o PackI32(1) \o PackI32(1)}
        ELSE ElementData(tc)

GeosoftCall ==
    /\ fn = "geosoft.parse"
    /\ fpc = "call"
    /\ result' = GeosoftParse(args.data)
    /\ fpc' = "done"
    /\ UNCHANGED <<fn, args, offset, fileVars, batchVars>>

InitGeosoft ==
    /\ fn = "geosoft.parse"
    /\ \/ \E h \in GeosoftHeaders : \E d \in GeosoftPayloads(h) :
             args = [data |-> GeosoftHeaderBytes(h) \o d, given |-> <<h>>]
       \/ \E n \in {0, 100, GeosoftHeaderSize - 1} :
             args = [data |-> SubSeq(GeosoftHeaderBytes(
                                 CHOOSE h \in GeosoftHeaders : h.es = 4), 1, n),
                     given |-> <<>>]
    /\ result = <<>>
    /\ offset = 0
    /\ fpc = "call"
    /\ FileIdle
    /\ BatchIdle

NextGeosoft == GeosoftCall

SpecGeosoft == InitGeosoft /\ [][NextGeosoft]_vars

\* The header fails one of the checks the claim names: a zero data factor,
\* an element-size code outside VALID_ES, a dimension that is not positive.
GeosoftMalformed ==
    /\ Len(args.data) >= 512
    /\ \/ args.given[1].es \notin VALID_ES
       \/ args.given[1].zmult = Zero64
       \/ args.given[1].ne <= 0
       \/ args.given[1].nv <= 0

\* C10: GeosoftParser.parse does not raise on a malformed header: from a
\* buffer of at least 512 bytes whose header fails the validity checks it
\* returns a result with exactly one error and no data, and from a buffer
\* shorter than 512 bytes a result with one error and nothing else.
C10_GeosoftMalformedHeader ==
    (fn = "geosoft.parse" /\ fpc = "done") =>
        /\ ~result.raised
        /\ GeosoftMalformed =>
              /\ Len(result.value.errors) = 1
              /\ result.value.data = <<>>
        /\ Len(args.data) < 512 =>
              /\ Len(result.value.errors) = 1
              /\ result.value.header = <<>>
              /\ result.value.data = <<>>
              /\ result.value.shape = <<>>

\* C10, the part about short buffers alone.
C10_ShortBuffer ==
    (fn = "geosoft.parse" /\ fpc = "done" /\ Len(args.data) < 512) =>
        /\ ~result.raised
        /\ Len(result.value.errors) = 1
        /\ result.value.header = <<>>
        /\ result.value.data = <<>>

\* C10, without the possibility of a raise: a malformed header gives one
\* error and no data.  Refuted by the state of C10_BadElementSizeAccepted.
C10_MalformedRejected ==
    (fn = "geosoft.parse" /\ fpc = "done" /\ GeosoftMalformed /\ ~result.raised) =>
        /\ Len(result.value.errors) = 1
        /\ result.value.data = <<>>

\* A zero data factor with one float32 element: parse raises.
C10_RaisesOnZeroFactor ==
    /\ fn = "geosoft.parse" /\ fpc = "done"
    /\ Len(args.data) = 512 + 4
    /\ args.given[1].es = 4 /\ args.given[1].sf = 2
    /\ args.given[1].ne = 1 /\ args.given[1].kx = 1
    /\ args.given[1].zmult = Zero64
    /\ result.raised

\* An element-size code of 3: the payload is decoded as float32 and returned
\* without any error.
C10_BadElementSizeAccepted ==
    /\ fn = "geosoft.parse" /\ fpc = "done"
    /\ args.given /= <<>>
    /\ args.given[1].es = 3 /\ args.given[1].zmult = One64
    /\ args.given[1].ne = 1
    /\ ~result.raised
    /\ result.value.errors = <<>>
    /\ result.value.data = << <<<<1, 1>>>> >>

(***************************************************************************)
(* EncomParser                                                             *)
(***************************************************************************)
EncomHeaderSize == 240
GRID_MARKER == <<71, 82, 73, 68>>
GRID_MARKER_OFFSET == 168

EncomCanParse(data) ==
    IF Len(data) < EncomHeaderSize THEN FALSE
    ELSE Slice(data, GRID_MARKER_OFFSET, GRID_MARKER_OFFSET + 4) = GRID_MARKER

\* Mutant: every whole value of the payload, whatever the header declares.
EncomAllValues(payload, nx, ny) == Len(payload) \div 4

\* n_values = min(len(payload) // 4, nx * ny) if nx > 0 and ny > 0
\*            else len(payload) // 4
EncomValueCount(payload, nx, ny) ==
    IF nx > 0 /\ ny > 0 THEN Min(Len(payload) \div 4, nx * ny)
    ELSE Len(payload) \div 4

EncomParse(data) ==
    LET new == ParseResult("Encom ModelVision Grid")
    IN  IF ~EncomCanParse(data)
        THEN Returned([new EXCEPT !.errors = <<ParseError(
                 "Not a valid Encom ModelVision grid", <<>>)>>])
        ELSE
        LET nx == I32(data, 4)
            ny == I32(data, 8)
            header == [nx |-> nx, ny |-> ny,
                       xmin |-> F64(data, 12), xmax |-> F64(data, 20),
                       ymin |-> F64(data, 28), ymax |-> F64(data, 36),
                       zmin |-> F64(data, 44), zmax |-> F64(data, 52)]
            payload == Slice(data, EncomHeaderSize, Len(data))
            expected == nx * ny * 4
            errors == IF Len(payload) < expected /\ nx > 0 /\ ny > 0
                      THEN <<ParseError("Payload truncated",
                                        <<expected, Len(payload)>>)>>
                      ELSE <<>>
            n_values == EncomValueCount(payload, nx, ny)
            values == UnpackFloats(n_values, payload, 0)
        IN  IF n_values > 0 /\ values.raised THEN Raised
            ELSE Returned([new EXCEPT
                     !.header = <<header>>,
                     !.shape = IF nx > 0 /\ ny > 0 THEN <<ny, nx>> ELSE <<>>,
                     !.errors = errors,
                     !.data = IF n_values > 0 THEN values.value ELSE <<>>])

\* Inputs: a 240-byte header with the two dimensions and six bounds, the
\* marker (or other bytes) at offset 168, then some float32 values and up to
\* three bytes of a further one.
EncomBuffer(g) ==
    LET fields == <<0, 0, 0, 0>> \o PackI32(g.nx) \o PackI32(g.ny)
                      \o Flatten([i \in 1..6 |-> PackF64(g.bounds[i])])
    IN  fields \o [i \in 1..(GRID_MARKER_OFFSET - Len(fields)) |-> 0]
            \o g.marker
            \o [i \in 1..(EncomHeaderSize - GRID_MARKER_OFFSET - 4) |-> 0]
            \o Flatten([i \in 1..Len(g.values) |-> PackF32(g.values[i])])
            \o SubSeq(<<0, 0, 128>>, 1, g.extra)

EncomGrids ==
    [marker : {GRID_MARKER, <<71, 82, 73, 32>>},
     nx : -1..MaxDim, ny : -1..MaxDim,
     bounds : {[i \in 1..6 |-> IF i % 2 = 1 THEN lo ELSE hi] :
                   lo \in {Zero64}, hi \in Float64s},
     values : SeqsUpTo(Float32s, MaxValues),
     extra : {0, 3}]

EncomCall ==
    /\ fn = "encom.parse"
    /\ fpc = "call"
    /\ result' = EncomParse(args.data)
    /\ fpc' = "done"
    /\ UNCHANGED <<fn, args, offset, fileVars, batchVars>>

InitEncom ==
    /\ fn = "encom.parse"
    /\ \/ \E g \in EncomGrids : args = [data |-> EncomBuffer(g), given |-> <<g>>]
       \/ \E n \in {0, GRID_MARKER_OFFSET + 4, EncomHeaderSize - 1} :
             args = [data |-> SubSeq(EncomBuffer(CHOOSE g \in EncomGrids :
                                 g.marker = GRID_MARKER /\ g.values = <<>>
                                 /\ g.extra = 0), 1, n),
                     given |-> <<>>]
    /\ result = <<>>
    /\ offset = 0
    /\ fpc = "call"
    /\ FileIdle
    /\ BatchIdle

NextEncom == EncomCall

SpecEncom == InitEncom /\ [][NextEncom]_vars

\* A finished parse of a buffer of at least 240 bytes with GRID at 168.
EncomParsed ==
    /\ fn = "encom.parse" /\ fpc = "done"
    /\ Len(args.data) >= 240
    /\ SubSeq(args.data, 169, 172) = <<71, 82, 73, 68>>

\* C11 as stated: the data are the first min(nx*ny, P div 4) float32 values
\* of the payload, P the number of bytes after the header, and a truncation
\* error is recorded exactly when P < nx*ny*4.
C11_Original ==
    EncomParsed =>
        LET g == args.given[1]
            P == Len(args.data) - 240
        IN  /\ ~result.raised
            /\ result.value.data = SubSeq(g.values, 1, Min(g.nx * g.ny, P \div 4))
            /\ (result.value.errors /= <<>>) <=> (P < g.nx * g.ny * 4)

\* C11 as amended: when both dimensions are positive the data are the first
\* min(nx*ny, P div 4) values and one truncation error is recorded exactly
\* when P < nx*ny*4; when a dimension is zero or negative all P div 4 whole
\* values are returned, without a cap, a shape or an error.
C11_EncomCappedWhenPositive ==
    EncomParsed =>
        LET g == args.given[1]
            P == Len(args.data) - 240
        IN  /\ ~result.raised
            /\ IF g.nx > 0 /\ g.ny > 0
               THEN /\ result.value.shape = <<g.ny, g.nx>>
                    /\ result.value.data =
                          SubSeq(g.values, 1, Min(g.nx * g.ny, P \div 4))
                    /\ IF P < g.nx * g.ny * 4
                       THEN /\ Len(result.value.errors) = 1
                            /\ result.value.errors[1].msg = "Payload truncated"
                       ELSE result.value.errors = <<>>
               ELSE /\ result.value.shape = <<>>
                    /\ result.value.data = SubSeq(g.values, 1, P \div 4)
                    /\ result.value.errors = <<>>

\* C11 witness: a 1 by 2 grid followed by three values; two are returned and
\* no error is recorded.
C11_Witness ==
    /\ EncomParsed
    /\ args.given[1].nx = 2 /\ args.given[1].ny = 1
    /\ Len(args.given[1].values) = 3
    /\ ~result.raised
    /\ Len(result.value.data) = 2
    /\ result.value.errors = <<>>

\* ---------------------------------------------------------------------
\* Null mapping and rescaling of GeosoftParser.parse

\* What each element explored stands for, read off its bytes by hand: its
\* position relative to the sentinel of its type code, and its value as a
\* fraction where the value is rescaled.
GeosoftMeaning(tc, item) ==
    CASE tc = "B" /\ item = <<3>> -> [rel |-> "above", v |-> <<3, 1>>]
      [] tc = "B" /\ item = <<255>> -> [rel |-> "equal", v |-> <<255, 1>>]
      [] tc = "b" /\ item = <<3>> -> [rel |-> "above", v |-> <<3, 1>>]
      [] tc = "b" /\ item = <<129>> -> [rel |-> "equal", v |-> <<-127, 1>>]
      [] tc = "b" /\ item = <<128>> -> [rel |-> "below", v |-> <<-128, 1>>]
      [] tc = "H" /\ item = <<3, 0>> -> [rel |-> "above", v |-> <<3, 1>>]
      [] tc = "H" /\ item = <<255, 255>> -> [rel |-> "equal", v |-> <<65535, 1>>]
      [] tc = "h" /\ item = <<3, 0>> -> [rel |-> "above", v |-> <<3, 1>>]
      [] tc = "h" /\ item = <<1, 128>> -> [rel |-> "equal", v |-> <<-32767, 1>>]
      [] tc = "h" /\ item = <<0, 128>> -> [rel |-> "below", v |-> <<-32768, 1>>]
      [] tc = "I" /\ item = <<2, 0, 0, 0>> -> [rel |-> "above", v |-> <<2, 1>>]
      [] tc = "I" /\ item = <<255, 255, 255, 255>> ->
             [rel |-> "equal", v |-> <<0, 1>>]
      [] tc = "i" /\ item = <<254, 255, 255, 255>> ->
             [rel |-> "above", v |-> <<-2, 1>>]
      [] tc = "i" /\ item = <<1, 0, 0, 128>> ->
             [rel |-> "equal", v |-> <<-2147483647, 1>>]
      [] tc = "f" /\ item = <<0, 0, 128, 63>> -> [rel |-> "above", v |-> <<1, 1>>]
      [] tc = "f" /\ item = <<0, 0, 0, 192>> -> [rel |-> "above", v |-> <<-2, 1>>]
      [] tc = "f" /\ item = <<174, 197, 157, 244>> ->
             [rel |-> "below", v |-> <<0, 1>>]
      [] tc = "d" /\ item = PackF64(One64) -> [rel |-> "above", v |-> <<1, 1>>]
      [] tc = "d" /\ item = PackF64(Two64) -> [rel |-> "above", v |-> <<2, 1>>]
      [] tc = "d" /\ item = PackF64(Dummy64) -> [rel |-> "equal", v |-> <<0, 1>>]

\* The output the mapping rule gives for one element.
GeosoftExpected(tc, item, zmult, zbase) ==
    LET m == GeosoftMeaning(tc, item)
        null == IF tc \in {"f", "d"} THEN m.rel \in {"below", "equal"}
                ELSE m.rel = "equal"
    IN  IF null THEN <<>>
        ELSE <<FracAdd(FracDiv(m.v, DoubleValue(zmult)), DoubleValue(zbase))>>

\* parse came back with the elements decoded and scaled.
GeosoftScaled ==
    /\ fn = "geosoft.parse"
    /\ fpc = "done"
    /\ ~result.raised
    /\ Len(args.data) >= GeosoftHeaderSize
    /\ result.value.errors = <<>>

\* The elements the scaling loop was given.
GeosoftRawElements ==
    LET hdr == ReadHeader(Slice(args.data, 0, GeosoftHeaderSize))
        raw == Slice(args.data, GeosoftHeaderSize, Len(args.data))
        tc == DataTypeCode(hdr.n_bytes_per_element, hdr.sign_flag)
    IN  ArrayOf(tc, IF hdr.n_bytes_per_element > 1024
                    THEN Decompress(raw).value ELSE raw).value

\* C12: when GeosoftParser.parse returns scaled data, the output has one
\* entry per decoded raw element, in order: None when the element is at most
\* the sentinel for a float type code or equal to the sentinel for an integer
\* type code (an integer below its sentinel is rescaled), and otherwise
\* v / data_factor + base_value; metadata null_count is the number of None
\* entries.
C12_GeosoftNullAndScale ==
    GeosoftScaled =>
        LET hdr == ReadHeader(Slice(args.data, 0, GeosoftHeaderSize))
            tc == DataTypeCode(hdr.n_bytes_per_element, hdr.sign_flag)
            raws == GeosoftRawElements
            out == result.value.data
        IN  /\ Len(out) = Len(raws)
            /\ \A i \in 1..Len(raws) :
                   out[i] = GeosoftExpected(tc, raws[i], hdr.data_factor,
                                            hdr.base_value)
            /\ result.value.metadata = <<[null_count |-> Cardinality(
                   {i \in 1..Len(out) : out[i] = <<>>})]>>

\* A signed byte grid holding the sentinel -127 and then 3, with data factor
\* 2 and base value 1: one None, then 5/2.
C12_Witness ==
    /\ GeosoftScaled
    /\ args.given # <<>>
    /\ args.given[1].es = 1
    /\ args.given[1].sf = 1
    /\ args.given[1].zmult = Two64
    /\ args.given[1].zbase = One64
    /\ Slice(args.data, GeosoftHeaderSize, Len(args.data)) = <<129, 3>>
    /\ result.value.data = <<<<>>, <<<<5, 2>>>>>>
    /\ result.value.metadata = <<[null_count |-> 1]>>

\* A signed byte below its sentinel (-128) is rescaled: -128 / 2 + 1 = -63.
C12_BelowSentinelRescaled ==
    (/\ GeosoftScaled
     /\ args.given # <<>>
     /\ args.given[1].es = 1
     /\ args.given[1].sf = 1
     /\ args.given[1].zmult = Two64
     /\ args.given[1].zbase = One64
     /\ Slice(args.data, GeosoftHeaderSize, Len(args.data)) = <<128>>)
    => result.value.data = <<<<<<-63, 1>>>>>>

\* ---------------------------------------------------------------------
\* ZMapParser.parse (parsers/zmap.py)
\*
\* Text is a sequence of code points; a str value of the program is the
\* sequence of its code points.

\* data.decode("ascii", errors="replace")
DecodeAscii(data) ==
    [i \in 1..Len(data) |-> IF data[i] < 128 THEN data[i] ELSE 65533]

\* The line boundaries of str.splitlines and the white space of str.strip
\* and str.split, among the code points a decoded text can hold.
LineBreaks == {10, 11, 12, 13, 28, 29, 30}
WhiteSpace == {9, 10, 11, 12, 13, 28, 29, 30, 31, 32}

\* The k-th smallest member of a set of positions.
KthOf(P, k) == CHOOSE i \in P : Cardinality({j \in P : j < i}) = k - 1

\* text.splitlines(): a line ends at each line boundary (CR LF counts as
\* one); what follows the last boundary is a line when it is not empty.
SplitLines(text) ==
    LET P == {i \in 1..Len(text) :
                  /\ text[i] \in LineBreaks
                  /\ ~(text[i] = 10 /\ i > 1 /\ text[i - 1] = 13)}
        n == Cardinality(P)
        after(i) == IF text[i] = 13 /\ i < Len(text) /\ text[i + 1] = 10
                    THEN i + 2 ELSE i + 1
        start(k) == IF k = 1 THEN 1 ELSE after(KthOf(P, k - 1))
        ended == [k \in 1..n |-> SubSeq(text, start(k), KthOf(P, k) - 1)]
    IN  IF start(n + 1) <= Len(text)
        THEN Append(ended, SubSeq(text, start(n + 1), Len(text)))
        ELSE ended

\* s.strip()
Strip(s) ==
    LET P == {i \in 1..Len(s) : s[i] \notin WhiteSpace}
    IN  IF P = {} THEN <<>>
        ELSE SubSeq(s, CHOOSE i \in P : \A j \in P : i <= j,
                       CHOOSE i \in P : \A j \in P : i >= j)

\* s.split(sep), for a separator of one character.
SplitOn(s, sep) ==
    LET P == {i \in 1..Len(s) : s[i] = sep}
        n == Cardinality(P)
        pos(k) == IF k = 0 THEN 0 ELSE IF k = n + 1 THEN Len(s) + 1
                  ELSE KthOf(P, k)
    IN  [k \in 1..(n + 1) |-> SubSeq(s, pos(k - 1) + 1, pos(k) - 1)]

\* s.split(): the maximal runs without white space.
SplitWS(s) ==
    LET first == {i \in 1..Len(s) :
                      /\ s[i] \notin WhiteSpace
                      /\ i = 1 \/ s[i - 1] \in WhiteSpace}
        last == {i \in 1..Len(s) :
                     /\ s[i] \notin WhiteSpace
                     /\ i = Len(s) \/ s[i + 1] \in WhiteSpace}
    IN  [k \in 1..Cardinality(first) |->
            SubSeq(s, KthOf(first, k), KthOf(last, k))]

\* c in s
Contains(s, c) == \E i \in 1..Len(s) : s[i] = c

\* s.partition(c): the parts before and after the first c.
Partition(s, c) ==
    IF ~Contains(s, c) THEN <<s, <<>>>>
    ELSE LET k == CHOOSE i \in 1..Len(s) :
                      s[i] = c /\ \A j \in 1..(i - 1) : s[j] # c
         IN  <<SubSeq(s, 1, k - 1), SubSeq(s, k + 1, Len(s))>>

\* ---- int() and float() of a str -------------------------------------

IsDigit(c) == c \in 48..57

\* A digit part of a numeric literal: digits, single underscores between.
IsDigitPart(s) ==
    /\ s # <<>>
    /\ IsDigit(s[1])
    /\ IsDigit(s[Len(s)])
    /\ \A i \in 1..Len(s) : IsDigit(s[i]) \/ s[i] = 95
    /\ \A i \in 1..(Len(s) - 1) : ~(s[i] = 95 /\ s[i + 1] = 95)

DigitsOf(s) == SelectSeq(s, IsDigit)

RECURSIVE DigitsValue(_, _)
DigitsValue(ds, acc) ==
    IF ds = <<>> THEN acc ELSE DigitsValue(Tail(ds), 10 * acc + (ds[1] - 48))

\* The sign of a literal and what follows it.
Unsigned(s) == IF s # <<>> /\ s[1] \in {43, 45} THEN Tail(s) ELSE s
SignOf(s) == IF s # <<>> /\ s[1] = 45 THEN -1 ELSE 1

\* int(s): Returned(n), or Raised for ValueError.
PyInt(s) ==
    LET t == Strip(s)
    IN  IF IsDigitPart(Unsigned(t))
        THEN Returned(SignOf(t) * DigitsValue(DigitsOf(Unsigned(t)), 0))
        ELSE Raised

\* A float is kept as a decimal m * 10^e with m not a multiple of 10 (m = 0
\* has e = 0), or as an infinity of sign m, or as NaN.  The literals
\* explored are short, and far from the limits and the rounding of a double.
RECURSIVE Decimal(_, _)
Decimal(m, e) ==
    IF m = 0 THEN [kind |-> "num", m |-> 0, e |-> 0]
    ELSE IF m % 10 = 0 THEN Decimal(m \div 10, e + 1)
    ELSE [kind |-> "num", m |-> m, e |-> e]

Infinity(sign) == [kind |-> "inf", m |-> sign, e |-> 0]
NaN == [kind |-> "nan", m |-> 0, e |-> 0]




\* The mantissa of a literal: digit part, optional point, optional digit
\* part, one of the two digit parts at least.
MantissaOk(s) ==
    IF ~Contains(s, 46) THEN IsDigitPart(s)
    ELSE LET p == Partition(s, 46)
         IN  /\ p[1] = <<>> \/ IsDigitPart(p[1])
             /\ p[2] = <<>> \/ IsDigitPart(p[2])
             /\ p[1] # <<>> \/ p[2] # <<>>

\* float(s): Returned(value), or Raised for ValueError.
PyFloat(s) ==
    LET t == Strip(s)
        u == Unsigned(t)
        low == Lower(u)
        hasExp == Contains(low, 101)
        mant == IF hasExp THEN Partition(low, 101)[1] ELSE low
        expo == IF hasExp THEN Partition(low, 101)[2] ELSE <<48>>
        p == Partition(mant, 46)
        digits == DigitsOf(p[1]) \o DigitsOf(p[2])
    IN  IF low \in {<<105, 110, 102>>,
                    <<105, 110, 102, 105, 110, 105, 116, 121>>}
        THEN Returned(Infinity(SignOf(t)))
        ELSE IF low = <<110, 97, 110>> THEN Returned(NaN)
        ELSE IF MantissaOk(mant) /\ IsDigitPart(Unsigned(expo))
        THEN Returned(Decimal(
                 SignOf(t) * DigitsValue(digits, 0),
                 SignOf(expo) * DigitsValue(DigitsOf(Unsigned(expo)), 0)
                     - Len(DigitsOf(p[2]))))
        ELSE Raised

RECURSIVE Digits(_)
Digits(n) == IF n < 10 THEN 1 ELSE 1 + Digits(n \div 10)

RECURSIVE Pow10(_)
Pow10(n) == IF n <= 0 THEN 1 ELSE 10 * Pow10(n - 1)

\* p * 10^a >= q * 10^b for p, q >= 0
DecimalAtLeast(p, a, q, b) ==
    IF q = 0 THEN TRUE
    ELSE IF p = 0 THEN FALSE
    ELSE IF Digits(p) + a # Digits(q) + b THEN Digits(p) + a > Digits(q) + b
    ELSE p * Pow10(a - Min(a, b)) >= q * Pow10(b - Min(a, b))

\* abs(v) >= abs(null_val) * 0.99 for two floats
AtLeastNullThreshold(v, null_val) ==
    IF v.kind = "nan" \/ null_val.kind = "nan" THEN FALSE
    ELSE IF v.kind = "inf" THEN TRUE
    ELSE IF null_val.kind = "inf" THEN FALSE
    ELSE DecimalAtLeast(Abs(v.m), v.e, 99 * Abs(null_val.m), null_val.e - 2)

\* ---- the header mapping ---------------------------------------------

\* The keys parse writes, as str values.
KEY_GRID_NAME == <<103, 114, 105, 100, 95, 110, 97, 109, 101>>
KEY_VALUES_PER_LINE == <<118, 97, 108, 117, 101, 115, 95, 112, 101, 114, 95, 108, 105, 110, 101>>
KEY_NULL_VALUE == <<110, 117, 108, 108, 95, 118, 97, 108, 117, 101>>
KEY_N_DATA_COLUMNS == <<110, 95, 100, 97, 116, 97, 95, 99, 111, 108, 117, 109, 110, 115>>
KEY_NY == <<110, 121>>
KEY_NX == <<110, 120>>
KEY_XMIN == <<120, 109, 105, 110>>
KEY_XMAX == <<120, 109, 97, 120>>
KEY_YMIN == <<121, 109, 105, 110>>
KEY_YMAX == <<121, 109, 97, 120>>

\* A dict is the sequence of its items in insertion order; a value is a
\* str, a float or an int.
StrValue(s) == [t |-> "str", v |-> s]
FloatOf(x) == [t |-> "float", v |-> x]
IntValue(n) == [t |-> "int", v |-> n]

DictHas(d, k) == \E i \in 1..Len(d) : d[i].key = k

DictGet(d, k) == d[CHOOSE i \in 1..Len(d) : d[i].key = k].value

\* d[k] = v
DictSet(d, k, v) ==
    IF DictHas(d, k)
    THEN [i \in 1..Len(d) |-> IF d[i].key = k THEN [key |-> k, value |-> v]
                              ELSE d[i]]
    ELSE Append(d, [key |-> k, value |-> v])

\* The default null value, 1e30.
DefaultNull == [kind |-> "num", m |-> 1, e |-> 30]

\* The first "@" line: grid name and values per line, when it has at
\* least three comma-separated parts.
ZMapOpenLine(header, stripped) ==
    LET parts == SplitOn(Tail(stripped), 44)
        first == Strip(parts[1])
        named == DictSet(header, KEY_GRID_NAME,
                         StrValue(IF first # <<>> THEN SplitWS(first)[1] ELSE <<>>))
        n == PyInt(Strip(parts[Len(parts)]))
    IN  IF Len(parts) < 3 THEN header
        ELSE IF n.raised THEN named
        ELSE DictSet(named, KEY_VALUES_PER_LINE, IntValue(n.value))

\* Row 1 of the header: null value and number of data columns.  The null
\* value stays when the column count does not parse.
ZMapRow1(header, parts) ==
    LET nv == IF parts[2] # <<>> THEN PyFloat(parts[2]) ELSE Returned(DefaultNull)
        withNull == DictSet(header, KEY_NULL_VALUE, FloatOf(nv.value))
        nc == IF Len(parts) > 3 THEN PyInt(parts[4]) ELSE Returned(0)
    IN  IF nv.raised THEN header
        ELSE IF nc.raised THEN withNull
        ELSE DictSet(withNull, KEY_N_DATA_COLUMNS, IntValue(nc.value))

\* Row 2 of the header: the assignments made before the first field that
\* does not parse.
RECURSIVE ZMapRow2From(_, _, _)
ZMapRow2From(header, parts, k) ==
    LET keys == <<KEY_NY, KEY_NX, KEY_XMIN, KEY_XMAX, KEY_YMIN, KEY_YMAX>>
        val == IF k <= 2 THEN PyInt(parts[k]) ELSE PyFloat(parts[k])
    IN  IF k > 6 THEN header
        ELSE IF val.raised THEN header
        ELSE ZMapRow2From(DictSet(header, keys[k],
                                  IF k <= 2 THEN IntValue(val.value)
                                  ELSE FloatOf(val.value)),
                          parts, k + 1)

\* A row read inside the header.
ZMapHeaderRow(header, stripped) ==
    LET raw == SplitOn(stripped, 44)
        parts == [i \in 1..Len(raw) |-> Strip(raw[i])]
    IN  IF ~DictHas(header, KEY_NULL_VALUE) /\ Len(parts) >= 2
        THEN ZMapRow1(header, parts)
        ELSE IF ~DictHas(header, KEY_NY) /\ Len(parts) >= 6
        THEN ZMapRow2From(header, parts, 1)
        ELSE header

\* The first loop of parse from line i on (lines are counted from 1, so
\* data_start counts the lines before the data).
RECURSIVE ZMapHeaderLoop(_, _, _, _, _)
ZMapHeaderLoop(lines, i, header, data_start, in_header) ==
    IF i > Len(lines)
    THEN [header |-> header, data_start |-> data_start, in_header |-> in_header]
    ELSE
    LET stripped == Strip(lines[i])
    IN  IF stripped = <<>>
        THEN ZMapHeaderLoop(lines, i + 1, header, data_start, in_header)
        ELSE IF stripped[1] = 33
        THEN LET p == Partition(Tail(stripped), 58)
             IN  ZMapHeaderLoop(lines, i + 1,
                     IF Contains(stripped, 58)
                     THEN DictSet(header, Strip(p[1]), StrValue(Strip(p[2])))
                     ELSE header,
                     data_start, in_header)
        ELSE IF stripped[1] = 64 /\ ~in_header
        THEN ZMapHeaderLoop(lines, i + 1, ZMapOpenLine(header, stripped),
                            data_start, TRUE)
        ELSE IF stripped[1] = 64 /\ in_header
        THEN ZMapHeaderLoop(lines, i + 1, header, i, FALSE)
        ELSE IF in_header
        THEN ZMapHeaderLoop(lines, i + 1, ZMapHeaderRow(header, stripped),
                            data_start, in_header)
        ELSE ZMapHeaderLoop(lines, i + 1, header, data_start, in_header)

\* The tokens of the data lines, in order: those of every line after the
\* first data_start lines that is not blank and starts with neither "!"
\* nor "@".
RECURSIVE ZMapDataTokens(_, _)
ZMapDataTokens(lines, i) ==
    IF i > Len(lines) THEN <<>>
    ELSE LET stripped == Strip(lines[i])
         IN  IF stripped = <<>> \/ stripped[1] \in {33, 64}
             THEN ZMapDataTokens(lines, i + 1)
             ELSE SplitWS(stripped) \o ZMapDataTokens(lines, i + 1)

\* The null test of the data loop.
ZMapIsNull(v, null_val) == AtLeastNullThreshold(v, null_val)

\* The data loop from token k on: a token that is no float is skipped; a
\* float is tested against the null value, which raises TypeError when the
\* null value is a str (set by a comment line labelled null_value).
RECURSIVE ZMapValuesFrom(_, _, _, _)
ZMapValuesFrom(tokens, k, null_val, values) ==
    IF k > Len(tokens) THEN Returned(values)
    ELSE LET v == PyFloat(tokens[k])
         IN  IF v.raised THEN ZMapValuesFrom(tokens, k + 1, null_val, values)
             ELSE IF null_val.t = "str" THEN Raised
             ELSE ZMapValuesFrom(tokens, k + 1, null_val,
                      Append(values, IF ZMapIsNull(v.value, null_val.v)
                                     THEN <<>> ELSE <<v.value>>))

\* bool(x) of a header value
Truthy(x) ==
    CASE x.t = "str" -> x.v # <<>>
      [] x.t = "int" -> x.v # 0
      [] x.t = "float" -> ~(x.v.kind = "num" /\ x.v.m = 0)

ZMapParse(data) ==
    LET lines == SplitLines(DecodeAscii(data))
        h == ZMapHeaderLoop(lines, 1, <<>>, 0, FALSE)
        nx == IF DictHas(h.header, KEY_NX) THEN DictGet(h.header, KEY_NX)
              ELSE IntValue(0)
        ny == IF DictHas(h.header, KEY_NY) THEN DictGet(h.header, KEY_NY)
              ELSE IntValue(0)
        null_val == IF DictHas(h.header, KEY_NULL_VALUE)
                    THEN DictGet(h.header, KEY_NULL_VALUE)
                    ELSE FloatOf(DefaultNull)
        values == ZMapValuesFrom(ZMapDataTokens(lines, h.data_start + 1), 1,
                                 null_val, <<>>)
    IN  IF values.raised THEN Raised
        ELSE Returned([ParseResult("ZMap+ ASCII Grid") EXCEPT
                 !.header = h.header,
                 !.shape = IF Truthy(nx) /\ Truthy(ny) THEN <<ny, nx>> ELSE <<>>,
                 !.data = values.value,
                 !.metadata = <<[null_count |-> Cardinality(
                     {i \in 1..Len(values.value) : values.value[i] = <<>>})]>>])

\* ---- inputs ---------------------------------------------------------

\* A ZMap+ text is put together from an optional comment line, the opening
\* "@" line, two header rows, an optional closing "@" line and data lines,
\* each ended by a line feed.  With each piece goes what it was written to
\* mean: the null value of a first header row, the numbers of the data
\* lines.
ZMapComments ==
    {\* ''
     <<>>,
     \* '! ZIMS FILE NAME : ex'
     <<33, 32, 90, 73, 77, 83, 32, 70, 73, 76, 69, 32, 78, 65, 77, 69, 32,
     58, 32, 101, 120>>,
     \* '! null_value : x'
     <<33, 32, 110, 117, 108, 108, 95, 118, 97, 108, 117, 101, 32, 58, 32,
     120>>}

\* '@ex HEADER, GRID, 5'
ZMapOpen ==
    <<64, 101, 120, 32, 72, 69, 65, 68, 69, 82, 44, 32, 71, 82, 73, 68, 44,
    32, 53>>

ZMapRow1s ==
    {\* '15, 100, , 7, 1'
     [text |-> <<49, 53, 44, 32, 49, 48, 48, 44, 32, 44, 32, 55, 44, 32,
               49>>,
      null |-> <<[kind |-> "num", m |-> 1, e |-> 2]>>],
     \* '15, , , 7, 1'
     [text |-> <<49, 53, 44, 32, 44, 32, 44, 32, 55, 44, 32, 49>>,
      null |-> <<[kind |-> "num", m |-> 1, e |-> 30]>>],
     \* '15, -1E+2, , 7'
     [text |-> <<49, 53, 44, 32, 45, 49, 69, 43, 50, 44, 32, 44, 32, 55>>,
      null |-> <<[kind |-> "num", m |-> -1, e |-> 2]>>],
     \* '15, 0.0, , 7, 1'
     [text |-> <<49, 53, 44, 32, 48, 46, 48, 44, 32, 44, 32, 55, 44, 32,
               49>>,
      null |-> <<[kind |-> "num", m |-> 0, e |-> 0]>>],
     \* '15, 1.0E+30, , 7, 1'
     [text |-> <<49, 53, 44, 32, 49, 46, 48, 69, 43, 51, 48, 44, 32, 44, 32,
               55, 44, 32, 49>>,
      null |-> <<[kind |-> "num", m |-> 1, e |-> 30]>>],
     \* '15, x, , 7, 1'
     [text |-> <<49, 53, 44, 32, 120, 44, 32, 44, 32, 55, 44, 32, 49>>,
      null |-> <<>>]}

\* '2, 2, 0, 1, 0, 1'
ZMapRow2 ==
    <<50, 44, 32, 50, 44, 32, 48, 44, 32, 49, 44, 32, 48, 44, 32, 49>>

ZMapDataLines ==
    {\* '1 99 500'
     [text |-> <<49, 32, 57, 57, 32, 53, 48, 48>>,
      values |-> <<[kind |-> "num", m |-> 1, e |-> 0], [kind |-> "num", m
                 |-> 99, e |-> 0], [kind |-> "num", m |-> 5, e |-> 2]>>],
     \* '98.9 -100 100.5 -101.5'
     [text |-> <<57, 56, 46, 57, 32, 45, 49, 48, 48, 32, 49, 48, 48, 46, 53,
               32, 45, 49, 48, 49, 46, 53>>,
      values |-> <<[kind |-> "num", m |-> 989, e |-> -1], [kind |-> "num", m
                 |-> -1, e |-> 2], [kind |-> "num", m |-> 1005, e |-> -1],
                 [kind |-> "num", m |-> -1015, e |-> -1]>>],
     \* '1e30 9.8e29 inf 2E+30'
     [text |-> <<49, 101, 51, 48, 32, 57, 46, 56, 101, 50, 57, 32, 105, 110,
               102, 32, 50, 69, 43, 51, 48>>,
      values |-> <<[kind |-> "num", m |-> 1, e |-> 30], [kind |-> "num", m
                 |-> 98, e |-> 28], [kind |-> "inf", m |-> 1, e |-> 0],
                 [kind |-> "num", m |-> 2, e |-> 30]>>],
     \* 'nan 5 x -0.5'
     [text |-> <<110, 97, 110, 32, 53, 32, 120, 32, 45, 48, 46, 53>>,
      values |-> <<[kind |-> "nan", m |-> 0, e |-> 0], [kind |-> "num", m
                 |-> 5, e |-> 0], [kind |-> "num", m |-> -5, e |-> -1]>>],
     \* ''
     [text |-> <<>>,
      values |-> <<>>],
     \* '1 2\n! c\n101 0'
     [text |-> <<49, 32, 50, 10, 33, 32, 99, 10, 49, 48, 49, 32, 48>>,
      values |-> <<[kind |-> "num", m |-> 1, e |-> 0], [kind |-> "num", m
                 |-> 2, e |-> 0], [kind |-> "num", m |-> 101, e |-> 0],
                 [kind |-> "num", m |-> 0, e |-> 0]>>]}

ZMapTexts ==
    [comment : ZMapComments, row1 : ZMapRow1s, closed : BOOLEAN,
     data : ZMapDataLines]

ZMapBuffer(g) ==
    (IF g.comment = <<>> THEN <<>> ELSE g.comment \o <<10>>)
        \o ZMapOpen \o <<10>> \o g.row1.text \o <<10>> \o ZMapRow2 \o <<10>>
        \o (IF g.closed THEN <<64, 10>> ELSE <<>>)
        \o (IF g.data.text = <<>> THEN <<>> ELSE g.data.text \o <<10>>)

ZMapCall ==
    /\ fn = "zmap.parse"
    /\ fpc = "call"
    /\ result' = ZMapParse(args.data)
    /\ fpc' = "done"
    /\ UNCHANGED <<fn, args, offset, fileVars, batchVars>>

InitZMap ==
    /\ fn = "zmap.parse"
    /\ \E g \in ZMapTexts : args = [data |-> ZMapBuffer(g), given |-> <<g>>]
    /\ result = <<>>
    /\ offset = 0
    /\ fpc = "call"
    /\ FileIdle
    /\ BatchIdle

NextZMap == ZMapCall

SpecZMap == InitZMap /\ [][NextZMap]_vars

\* ---------------------------------------------------------------------
\* Null mapping of ZMapParser.parse

\* parse returned for a text with a closed header whose first row gives a
\* null value or leaves the field empty.
ZMapParsed ==
    /\ fn = "zmap.parse"
    /\ fpc = "done"
    /\ ~result.raised
    /\ args.given[1].closed
    /\ args.given[1].row1.null # <<>>

\* The magnitude of v is within 1% of the magnitude of s.
WithinOnePercent(v, s) ==
    /\ v.kind = "num"
    /\ s.kind = "num"
    /\ DecimalAtLeast(Abs(v.m), v.e, 99 * Abs(s.m), s.e - 2)
    /\ DecimalAtLeast(101 * Abs(s.m), s.e - 2, Abs(v.m), v.e)

\* C13: ZMapParser.parse maps a data value to null exactly when its
\* magnitude is within 1% of the magnitude of the header's null value (1e30
\* when the header gives none), and returns every other value unchanged.
C13_ZMapNullBand ==
    ZMapParsed =>
        LET s == args.given[1].row1.null[1]
            vals == args.given[1].data.values
            out == result.value.data
        IN  /\ Len(out) = Len(vals)
            /\ \A i \in 1..Len(vals) :
                   out[i] = IF WithinOnePercent(vals[i], s) THEN <<>>
                            ELSE <<vals[i]>>

\* What parse does instead: a value is null exactly when its magnitude is at
\* least 0.99 times the magnitude of the null value, however far above.
C13_NullAtOrAboveThreshold ==
    ZMapParsed =>
        LET s == args.given[1].row1.null[1]
            vals == args.given[1].data.values
            out == result.value.data
        IN  /\ Len(out) = Len(vals)
            /\ \A i \in 1..Len(vals) :
                   out[i] = IF /\ vals[i].kind # "nan"
                               /\ \/ vals[i].kind = "inf"
                                  \/ DecimalAtLeast(Abs(vals[i].m), vals[i].e,
                                                    99 * Abs(s.m), s.e - 2)
                            THEN <<>> ELSE <<vals[i]>>

\* With null value 100 and data 1 99 500, the value 500 comes back null.
C13_NullFarAboveSentinel ==
    /\ ZMapParsed
    /\ args.given[1].row1.null = <<[kind |-> "num", m |-> 1, e |-> 2]>>
    /\ args.given[1].data.values =
           <<[kind |-> "num", m |-> 1, e |-> 0],
             [kind |-> "num", m |-> 99, e |-> 0],
             [kind |-> "num", m |-> 5, e |-> 2]>>
    /\ result.value.data = <<<<[kind |-> "num", m |-> 1, e |-> 0]>>, <<>>, <<>>>>
    /\ result.value.metadata = <<[null_count |-> 2]>>

\* ---------------------------------------------------------------------
\* Float and endian codec (float_formats.py)
\*
\* A float32 is the record of its IEEE fields [s, e, m], a float64 the
\* record [s, e, hi, mid, lo] (fraction bits 51-32, 31-16, 15-0), as in the
\* parsers above.  ValueError is Raised.

\* data[::-1]
Reverse(data) == [i \in 1..Len(data) |-> data[Len(data) + 1 - i]]

swap_middle_endian_32(data) ==
    IF Len(data) # 4 THEN Raised
    ELSE Returned(<<data[3], data[4], data[1], data[2]>>)

\* Mutant: only the first half of the 8 bytes is permuted.
swap_first_half_only(data) ==
    IF Len(data) # 8 THEN Raised
    ELSE Returned(<<data[3], data[4], data[1], data[2],
                    data[5], data[6], data[7], data[8]>>)

swap_middle_endian_64(data) ==
    IF Len(data) # 8 THEN Raised
    ELSE Returned(<<data[3], data[4], data[1], data[2],
                    data[7], data[8], data[5], data[6]>>)

reorder_bytes(data, endian) ==
    CASE endian = "little" -> Returned(data)
      [] endian = "big" -> Returned(Reverse(data))
      [] endian = "middle" ->
             IF Len(data) <= 2 THEN Returned(data)
             ELSE IF Len(data) = 4 THEN swap_middle_endian_32(data)
             ELSE IF Len(data) = 8 THEN swap_middle_endian_64(data)
             ELSE Raised
      [] OTHER -> Raised

\* 0.0 as a float32 and as a float64
ZeroFloat32 == [s |-> 0, e |-> 0, m |-> 0]
ZeroFloat64 == [s |-> 0, e |-> 0, hi |-> 0, mid |-> 0, lo |-> 0]

\* The fields vax_f_to_ieee reads.  After the swap the raw word has data[2]
\* in bits 0-7, data[3] in bits 8-15, data[0] in bits 16-23 and data[1] in
\* bits 24-31 (data[k] being the k-th byte counted from 0).
VaxFSign(data) == data[4] \div 128
VaxFExponent(data) == (data[3] \div 128) + 2 * (data[4] % 128)
VaxFFraction(data) == 65536 * (data[3] % 128) + 256 * data[2] + data[1]

\* Mutant: the exponent is written without the test for underflow.
VaxFRebiasedUnchecked(exponent) == [zero |-> FALSE, e |-> exponent - 2]

\* exponent - 2 with its tests: zero on underflow, 0xFE on overflow.
VaxFRebiased(exponent) ==
    LET ieee_exp == exponent - 2
    IN  IF ieee_exp <= 0 THEN [zero |-> TRUE, e |-> 0]
        ELSE IF ieee_exp >= 255 THEN [zero |-> FALSE, e |-> 254]
        ELSE [zero |-> FALSE, e |-> ieee_exp]

\* Mutant: the test of the exponent field is left out.
VaxExponentNeverZero(exponent) == FALSE

\* exponent == 0
VaxExponentIsZero(exponent) == exponent = 0

vax_f_to_ieee(data) ==
    IF Len(data) # 4 THEN Raised
    ELSE LET exponent == VaxFExponent(data)
             r == VaxFRebiased(exponent)
         IN  IF VaxExponentIsZero(exponent) THEN Returned(ZeroFloat32)
             ELSE IF r.zero THEN Returned(ZeroFloat32)
             ELSE Returned([s |-> VaxFSign(data), e |-> r.e,
                            m |-> VaxFFraction(data)])

\* The 16-bit words of the 48 low fraction bits that vax_d_to_ieee and
\* vax_g_to_ieee read: after the swap, bits 16-31 of the raw value are
\* data[0..1], bits 32-47 data[6..7] and bits 48-63 data[4..5].
VaxWord0(data) == data[1] + 256 * data[2]
VaxWord1(data) == data[7] + 256 * data[8]
VaxWord2(data) == data[5] + 256 * data[6]

vax_d_to_ieee(data) ==
    IF Len(data) # 8 THEN Raised
    ELSE LET sign == data[4] \div 128
             exponent == (data[3] \div 128) + 2 * (data[4] % 128)
             frac_hi == data[3] % 128
             ieee_exp == exponent - 128 + 1023 - 1
         IN  IF VaxExponentIsZero(exponent) THEN Returned(ZeroFloat64)
             ELSE IF ieee_exp <= 0 THEN Returned(ZeroFloat64)
             ELSE Returned(
                 [s |-> sign,
                  e |-> IF ieee_exp >= 2047 THEN 2046 ELSE ieee_exp,
                  \* fraction >> 3, cut into its three fields
                  hi |-> 8192 * frac_hi + (VaxWord2(data) \div 8),
                  mid |-> 8192 * (VaxWord2(data) % 8) + (VaxWord1(data) \div 8),
                  lo |-> 8192 * (VaxWord1(data) % 8) + (VaxWord0(data) \div 8)])

vax_g_to_ieee(data) ==
    IF Len(data) # 8 THEN Raised
    ELSE LET sign == data[4] \div 128
             exponent == (data[3] \div 16) + 16 * (data[4] % 128)
             frac_hi == data[3] % 16
             ieee_exp == exponent - 2
         IN  IF VaxExponentIsZero(exponent) THEN Returned(ZeroFloat64)
             ELSE IF ieee_exp <= 0 THEN Returned(ZeroFloat64)
             ELSE Returned(
                 [s |-> sign,
                  e |-> IF ieee_exp >= 2047 THEN 2046 ELSE ieee_exp,
                  hi |-> 65536 * frac_hi + VaxWord2(data),
                  mid |-> VaxWord1(data),
                  lo |-> VaxWord0(data)])

\* An IBM value that is not zero is kept as its sign, its power of 16
\* (exponent - 64) and the bytes of its fraction, most significant first:
\* the number (fraction / 2^bits) * 16^(exponent - 64), which is positive
\* and, for every exponent, large enough not to round to zero as a double.
IbmZero == [kind |-> "zero", s |-> 0, e |-> 0, frac |-> <<>>]

\* fraction == 0
IbmFractionIsZero(data) == \A i \in 2..Len(data) : data[i] = 0

IbmValue(data) ==
    IF IbmFractionIsZero(data) THEN IbmZero
    ELSE [kind |-> "ibm", s |-> data[1] \div 128, e |-> (data[1] % 128) - 64,
          frac |-> Tail(data)]

ibm_float32_to_ieee(data) ==
    IF Len(data) # 4 THEN Raised ELSE Returned(IbmValue(data))

ibm_float64_to_ieee(data) ==
    IF Len(data) # 8 THEN Raised ELSE Returned(IbmValue(data))

\* _DTYPE_STRUCT.get(dtype): format character and size, <<>> for None.
DTYPE_STRUCT(dtype) ==
    CASE dtype = "uint8" -> <<"B", 1>>
      [] dtype = "int8" -> <<"b", 1>>
      [] dtype = "uint16" -> <<"H", 2>>
      [] dtype = "int16" -> <<"h", 2>>
      [] dtype = "uint32" -> <<"I", 4>>
      [] dtype = "int32" -> <<"i", 4>>
      [] dtype = "uint64" -> <<"Q", 8>>
      [] dtype = "int64" -> <<"q", 8>>
      [] dtype = "float32" -> <<"f", 4>>
      [] dtype = "float64" -> <<"d", 8>>
      [] OTHER -> <<>>

LegacyTypes == {"vax_f", "vax_d", "vax_g", "ibm_float32", "ibm_float64"}

\* _ENDIAN_PREFIX.get(endian, "<")
ENDIAN_PREFIX(endian) ==
    CASE endian = "little" -> "<"
      [] endian = "big" -> ">"
      [] OTHER -> "<"

\* struct.unpack(prefix + fmt_char, data)[0].  The number is kept as its
\* format character and its bytes from least to most significant, which
\* determine it: with prefix ">" the bytes are read in reverse.
StructUnpack(prefix, fmt_char, data) ==
    [fmt |-> fmt_char, le |-> IF prefix = ">" THEN Reverse(data) ELSE data]

decode_value(data, dtype, endian) ==
    CASE dtype = "vax_f" -> vax_f_to_ieee(data)
      [] dtype = "vax_d" -> vax_d_to_ieee(data)
      [] dtype = "vax_g" -> vax_g_to_ieee(data)
      [] dtype = "ibm_float32" -> ibm_float32_to_ieee(data)
      [] dtype = "ibm_float64" -> ibm_float64_to_ieee(data)
      [] OTHER ->
         LET info == DTYPE_STRUCT(dtype)
         IN  IF info = <<>> THEN Raised
             ELSE IF Len(data) # info[2] THEN Raised
             ELSE IF endian = "middle"
             THEN Returned(StructUnpack("<", info[1],
                                        reorder_bytes(data, "middle").value))
             ELSE Returned(StructUnpack(ENDIAN_PREFIX(endian), info[1], data))

\* The array size above which decode_array tries numpy.
NumpyThreshold == 256

\* np_endian
NumpyEndian(endian) == IF endian = "little" THEN "<" ELSE ">"

\* decode_array; numpy tells whether "import numpy" succeeds.
decode_array(data, dtype, endian, numpy) ==
    LET info == DTYPE_STRUCT(dtype)
        elem_size == IF dtype \in {"vax_f", "ibm_float32"} THEN 4
                     ELSE IF dtype \in {"vax_d", "vax_g", "ibm_float64"} THEN 8
                     ELSE info[2]
        n == Len(data) \div elem_size
        element(i) == SubSeq(data, (i - 1) * elem_size + 1, i * elem_size)
        slow == [i \in 1..n |-> decode_value(element(i), dtype, endian)]
    IN  IF dtype \notin LegacyTypes /\ info = <<>> THEN Raised
        ELSE IF Len(data) % elem_size # 0 THEN Raised
        ELSE IF dtype \notin LegacyTypes /\ endian # "middle"
        THEN IF n > NumpyThreshold /\ numpy
             THEN Returned([i \in 1..n |->
                      StructUnpack(NumpyEndian(endian), info[1], element(i))])
             ELSE Returned([i \in 1..n |->
                      StructUnpack(ENDIAN_PREFIX(endian), info[1], element(i))])
        ELSE IF \E i \in 1..n : slow[i].raised THEN Raised
        ELSE Returned([i \in 1..n |-> slow[i].value])

\* ---- inputs ---------------------------------------------------------

Endians == {"little", "big", "middle", "native"}

ReorderBuffers ==
    LET four == [1..4 -> {0, 1, 255}]
        half == [1..4 -> {0, 255}]
    IN  {<<>>, <<7>>, <<1, 2>>, <<1, 2, 3>>, <<1, 2, 3, 4>>, <<1, 2, 3, 4, 5>>,
         <<1, 2, 3, 4, 5, 6, 7, 8>>}
            \cup four \cup {a \o b : a \in half, b \in half}

\* VAX values: the bytes holding sign and exponent take their extreme
\* values and the ones around the underflow tests.
VaxBuffers4 ==
    {<<d0, d1, d2, d3>> : d0 \in {0, 255}, d1 \in {0, 1},
                          d2 \in {0, 127, 128, 255},
                          d3 \in {0, 1, 64, 127, 128, 129, 255}}
        \cup {<<128, 64, 0, 0>>, <<0, 0, 128, 64>>, <<192, 192, 1, 128>>}

VaxBuffers8 ==
    {d \o t : d \in VaxBuffers4,
              t \in {<<0, 0, 0, 0>>, <<1, 2, 3, 4>>, <<255, 255, 255, 255>>}}

IbmBuffers4 ==
    {<<b>> \o f : b \in {0, 128, 65, 193, 127, 255},
                  f \in {<<0, 0, 0>>, <<16, 0, 0>>, <<255, 255, 255>>, <<0, 0, 1>>}}

IbmBuffers8 == {d \o <<0, 0, 0, 0>> : d \in IbmBuffers4}
                   \cup {<<b, 0, 0, 0, 0, 0, 0, 1>> : b \in {0, 128, 65}}

LegacyInputs(f) ==
    CASE f = "vax_f_to_ieee" -> VaxBuffers4 \cup {<<0, 0>>}
      [] f = "vax_d_to_ieee" -> VaxBuffers8 \cup {<<0, 0, 0, 0>>}
      [] f = "vax_g_to_ieee" -> VaxBuffers8 \cup {<<0, 0, 0, 0>>}
      [] f = "ibm_float32_to_ieee" -> IbmBuffers4 \cup {<<0, 0>>}
      [] f = "ibm_float64_to_ieee" -> IbmBuffers8 \cup {<<0, 0, 0, 0>>}

LegacyFunctions ==
    {"vax_f_to_ieee", "vax_d_to_ieee", "vax_g_to_ieee",
     "ibm_float32_to_ieee", "ibm_float64_to_ieee"}

TypeTags ==
    {"uint8", "int8", "uint16", "int16", "uint32", "int32", "uint64", "int64",
     "float32", "float64"} \cup LegacyTypes

\* The width of a type tag.
WidthOf(dtype) ==
    CASE dtype \in {"uint8", "int8"} -> 1
      [] dtype \in {"uint16", "int16"} -> 2
      [] dtype \in {"uint32", "int32", "float32", "vax_f", "ibm_float32"} -> 4
      [] OTHER -> 8

\* A buffer of n bytes with few repetitions.
Pattern(n) == [i \in 1..n |-> (37 * i + 11) % 256]

ElementCounts == {0, 1, 2, NumpyThreshold + 1}

\* ---- actions --------------------------------------------------------

\* reorder_bytes on the argument, then on its own result.
ReorderCall ==
    /\ fn = "reorder_bytes"
    /\ fpc = "call"
    /\ result' = reorder_bytes(args.data, args.endian)
    /\ fpc' = "once"
    /\ UNCHANGED <<fn, args, offset, fileVars, batchVars>>

ReorderAgain ==
    /\ fn = "reorder_bytes"
    /\ fpc = "once"
    /\ ~result.raised
    /\ result' = reorder_bytes(result.value, args.endian)
    /\ fpc' = "twice"
    /\ UNCHANGED <<fn, args, offset, fileVars, batchVars>>

LegacyCall ==
    /\ fn \in LegacyFunctions
    /\ fpc = "call"
    /\ result' = CASE fn = "vax_f_to_ieee" -> vax_f_to_ieee(args.data)
                   [] fn = "vax_d_to_ieee" -> vax_d_to_ieee(args.data)
                   [] fn = "vax_g_to_ieee" -> vax_g_to_ieee(args.data)
                   [] fn = "ibm_float32_to_ieee" -> ibm_float32_to_ieee(args.data)
                   [] fn = "ibm_float64_to_ieee" -> ibm_float64_to_ieee(args.data)
    /\ fpc' = "done"
    /\ UNCHANGED <<fn, args, offset, fileVars, batchVars>>

DecodeValueCall ==
    /\ fn = "decode_value"
    /\ fpc = "call"
    /\ result' = decode_value(args.data, args.dtype, args.endian)
    /\ fpc' = "done"
    /\ UNCHANGED <<fn, args, offset, fileVars, batchVars>>

DecodeArrayCall ==
    /\ fn = "decode_array"
    /\ fpc = "call"
    /\ result' = decode_array(args.data, args.dtype, args.endian, args.numpy)
    /\ fpc' = "done"
    /\ UNCHANGED <<fn, args, offset, fileVars, batchVars>>

InitCodec ==
    /\ \/ /\ fn = "reorder_bytes"
          /\ \E d \in ReorderBuffers, en \in Endians \cup {"xyz"} :
                 args = [data |-> d, endian |-> en]
       \/ /\ fn \in LegacyFunctions
          /\ \E d \in LegacyInputs(fn) : args = [data |-> d]
       \/ /\ fn = "decode_value"
          /\ \E t \in TypeTags \cup {"float16"}, en \in Endians,
                k \in {0, 1} :
                 args = [data |-> Pattern(WidthOf(t) + k), dtype |-> t,
                         endian |-> en]
       \/ /\ fn = "decode_array"
          /\ \E t \in TypeTags \cup {"float16"}, en \in Endians,
                np \in BOOLEAN, n \in ElementCounts, k \in {0, 1} :
                 args = [data |-> Pattern(WidthOf(t) * n + k), dtype |-> t,
                         endian |-> en, numpy |-> np]
    /\ result = <<>>
    /\ offset = 0
    /\ fpc = "call"
    /\ FileIdle
    /\ BatchIdle

NextCodec ==
    \/ ReorderCall
    \/ ReorderAgain
    \/ LegacyCall
    \/ DecodeValueCall
    \/ DecodeArrayCall

SpecCodec == InitCodec /\ [][NextCodec]_vars

\* ---------------------------------------------------------------------
\* Claims about the codec

\* The i-th slice of the buffer given to decode_array, of the width of its
\* type tag.
ArraySlice(i) ==
    SubSeq(args.data, (i - 1) * WidthOf(args.dtype) + 1, i * WidthOf(args.dtype))

\* decode_array returned for a supported type tag, a buffer whose length
\* is a multiple of the element width, and a byte order with which
\* decode_value decodes an element of that type.
DecodeArrayDone ==
    /\ fn = "decode_array"
    /\ fpc = "done"
    /\ args.dtype \in TypeTags
    /\ Len(args.data) % WidthOf(args.dtype) = 0
    /\ ~decode_value(Pattern(WidthOf(args.dtype)), args.dtype, args.endian).raised

\* C14: decode_array returns len(buffer) / width values, the i-th being
\* decode_value of the i-th slice with the same type and byte order,
\* whichever of the struct, numpy and element-by-element paths is taken.
C14_DecodeArrayAgrees ==
    DecodeArrayDone =>
        /\ ~result.raised
        /\ Len(result.value) = Len(args.data) \div WidthOf(args.dtype)
        /\ \A i \in 1..Len(result.value) :
               result.value[i] =
                   decode_value(ArraySlice(i), args.dtype, args.endian).value

\* With numpy present, 257 uint16 elements and the byte order "native",
\* the elements come back read most significant byte first, while
\* decode_value reads each of them least significant byte first.
C14_NumpyReadsBigEndian ==
    /\ DecodeArrayDone
    /\ args.dtype = "uint16"
    /\ args.endian = "native"
    /\ args.numpy
    /\ Len(args.data) = 2 * (NumpyThreshold + 1)
    /\ ~result.raised
    /\ result.value[1] = [fmt |-> "H", le |-> <<args.data[2], args.data[1]>>]
    /\ decode_value(ArraySlice(1), args.dtype, args.endian).value
           = [fmt |-> "H", le |-> <<args.data[1], args.data[2]>>]
    /\ args.data[1] # args.data[2]

\* Below the numpy threshold, and without numpy, the two agree.
C14_AgreesWithoutNumpy ==
    (DecodeArrayDone
     /\ (~args.numpy \/ Len(args.data) \div WidthOf(args.dtype) <= NumpyThreshold))
    => /\ ~result.raised
       /\ \A i \in 1..Len(result.value) :
              result.value[i] =
                  decode_value(ArraySlice(i), args.dtype, args.endian).value

\* C15: reorder_bytes with "little" returns its argument; on a 4- or
\* 8-byte buffer, "big" applied twice and "middle" applied twice return the
\* buffer; "middle" turns 4 bytes b0 b1 b2 b3 into b2 b3 b0 b1 and does the
\* same to each 4-byte half of 8 bytes; "middle" leaves 1 and 2 bytes as
\* they are.
C15_ReorderRoundTrip ==
    (fn = "reorder_bytes" /\ fpc \in {"once", "twice"}) =>
        LET d == args.data
        IN  /\ (args.endian = "little" /\ fpc = "once") => result = Returned(d)
            /\ (Len(d) \in {4, 8} /\ args.endian \in {"big", "middle"}) =>
                   /\ ~result.raised
                   /\ fpc = "twice" => result.value = d
            /\ (Len(d) = 4 /\ args.endian = "middle" /\ fpc = "once") =>
                   result = Returned(<<d[3], d[4], d[1], d[2]>>)
            /\ (Len(d) = 8 /\ args.endian = "middle" /\ fpc = "once") =>
                   result = Returned(<<d[3], d[4], d[1], d[2],
                                       d[7], d[8], d[5], d[6]>>)
            /\ (Len(d) \in {1, 2} /\ args.endian = "middle" /\ fpc = "once") =>
                   result = Returned(d)

\* The second "middle" reordering of 1 2 3 4 5 6 7 8 has given it back.
C15_Witness ==
    /\ fn = "reorder_bytes"
    /\ fpc = "twice"
    /\ args.endian = "middle"
    /\ args.data = <<1, 2, 3, 4, 5, 6, 7, 8>>
    /\ result = Returned(<<1, 2, 3, 4, 5, 6, 7, 8>>)

\* The exponent field of a VAX value, read from the 16-bit word that comes
\* first once the middle-endian permutation is undone (bytes 2 and 3 of
\* the input): bits 14-7 for F and D, bits 14-4 for G.
VaxExponentField(f, data) ==
    IF f = "vax_g_to_ieee" THEN (data[3] + 256 * (data[4] % 128)) \div 16
    ELSE (data[3] + 256 * (data[4] % 128)) \div 128

\* A legacy routine returned for a buffer of its size.
LegacyDone ==
    /\ fn \in LegacyFunctions
    /\ fpc = "done"
    /\ Len(args.data) = (IF fn \in {"vax_f_to_ieee", "ibm_float32_to_ieee"}
                         THEN 4 ELSE 8)

\* 0.0 as the function returns it.
LegacyZero ==
    CASE fn = "vax_f_to_ieee" -> [s |-> 0, e |-> 0, m |-> 0]
      [] fn \in {"vax_d_to_ieee", "vax_g_to_ieee"} ->
             [s |-> 0, e |-> 0, hi |-> 0, mid |-> 0, lo |-> 0]
      [] OTHER -> [kind |-> "zero", s |-> 0, e |-> 0, frac |-> <<>>]

IsVax == fn \in {"vax_f_to_ieee", "vax_d_to_ieee", "vax_g_to_ieee"}

\* C16: every legacy routine decodes an all-zero buffer to 0.0; a VAX
\* routine decodes to 0.0 every input whose exponent field is zero, and an
\* IBM routine every input whose fraction field is zero.
C16_LegacyZero ==
    LegacyDone =>
        LET d == args.data
        IN  /\ ~result.raised
            /\ (\A i \in 1..Len(d) : d[i] = 0) => result.value = LegacyZero
            /\ (IsVax /\ VaxExponentField(fn, d) = 0) => result.value = LegacyZero
            /\ (~IsVax /\ \A i \in 2..Len(d) : d[i] = 0) =>
                   result.value = LegacyZero

\* vax_d_to_ieee returned 0.0 for a reserved operand: sign 1, exponent
\* field 0, fraction bits set.
C16_Witness ==
    /\ LegacyDone
    /\ fn = "vax_d_to_ieee"
    /\ args.data = <<255, 1, 127, 128, 1, 2, 3, 4>>
    /\ result.value = LegacyZero

\* C17: a VAX routine returns 0.0 when the rebiased exponent is zero or
\* negative, and otherwise a value whose exponent field is between 1 and
\* the largest finite one, so never an infinity or a NaN.
C17_VaxFinite ==
    (LegacyDone /\ IsVax) =>
        LET field == VaxExponentField(fn, args.data)
            rebiased == IF fn = "vax_d_to_ieee" THEN field - 128 + 1023 - 1
                        ELSE field - 2
            largest == IF fn = "vax_f_to_ieee" THEN 254 ELSE 2046
        IN  /\ ~result.raised
            /\ (field # 0 /\ rebiased <= 0) => result.value = LegacyZero
            /\ result.value = LegacyZero \/ result.value.e \in 1..largest
            /\ (field # 0 /\ rebiased > 0) =>
                   result.value.e = Min(rebiased, largest)

\* vax_f_to_ieee returned 0.0 for exponent field 2 with fraction bits set,
\* and a value with exponent field 253 for exponent field 255.
C17_Witness ==
    /\ LegacyDone
    /\ fn = "vax_f_to_ieee"
    /\ \/ /\ args.data = <<255, 1, 127, 1>>
          /\ VaxExponentField(fn, args.data) = 2
          /\ result.value = LegacyZero
       \/ /\ args.data = <<255, 1, 255, 127>>
          /\ VaxExponentField(fn, args.data) = 255
          /\ result.value = [s |-> 0, e |-> 253, m |-> 8323583]

\* ---------------------------------------------------------------------
\* Binary analyzer (analyzer.py)
\*
\* A score is kept in thousandths: 500 is 0.5, 300 is 0.3.

\* _byte_histogram(data): dict(Counter(data)), a mapping from the byte
\* values that occur to their counts.
ByteHistogram(data) ==
    [b \in Range(data) |-> Cardinality({i \in 1..Len(data) : data[i] = b})]

RECURSIVE PowMod(_, _, _)
PowMod(b, e, n) == IF e = 0 THEN 1 % n ELSE (b * PowMod(b, e - 1, n)) % n

\* The least k with a * 2^k >= t, for 0 < a <= t.
RECURSIVE ShiftFor(_, _)
ShiftFor(a, t) == IF a >= t THEN 0 ELSE 1 + ShiftFor(2 * a, t)

\* How the double a / t lies to the exact quotient, for 0 < a <= t: the
\* double keeps 53 bits of a * 2^(52 + k) / t, and the remainder of that
\* division tells whether it was rounded down (-1), up (1) or not at all.
DoubleError(a, t) ==
    LET r == ((a % t) * PowMod(2, 52 + ShiftFor(a, t), t)) % t
    IN  IF r = 0 THEN 0 ELSE IF 2 * r < t THEN -1 ELSE 1

\* Mutant: the quotient is cut to thousandths, not rounded.
Truncate3(a, t) == (1000 * a) \div t

\* round(a / t, 3) in thousandths, for 0 <= a <= t and t > 0.  round is
\* exact on the double it is given, so a quotient half-way between two
\* thousandths goes where the double lies, and to the even one when the
\* double is exact.
Round3(a, t) ==
    LET n0 == (1000 * a) \div t
        rem == (1000 * a) % t
        err == IF a = 0 THEN 0 ELSE DoubleError(a, t)
    IN  IF 2 * rem < t THEN n0
        ELSE IF 2 * rem > t THEN n0 + 1
        ELSE IF err = 1 THEN n0 + 1
        ELSE IF err = -1 THEN n0
        ELSE IF n0 % 2 = 0 THEN n0 ELSE n0 + 1

\* The bound of the sample _detect_endianness reads.
EndianSample == 4096


\* _detect_endianness(data)
DetectEndianness(data) ==
    LET sample == Slice(data, 0, Min(Len(data), EndianSample))
        usable == Len(sample) - (Len(sample) % 4)
        words == {i \in 0..(usable \div 4 - 1) : TRUE}
        \* the scores, counted in halves
        le2 == 2 * Cardinality({i \in words : sample[4 * i + 4] = 0})
                   + Cardinality({i \in words : sample[4 * i + 3] = 0})
        be2 == 2 * Cardinality({i \in words : sample[4 * i + 1] = 0})
                   + Cardinality({i \in words : sample[4 * i + 2] = 0})
    IN  IF Len(data) < 4 THEN [little |-> 500, big |-> 500]
        ELSE IF usable < 4 THEN [little |-> 500, big |-> 500]
        ELSE IF le2 + be2 = 0 THEN [little |-> 500, big |-> 500]
        ELSE [little |-> Round3(le2, le2 + be2), big |-> Round3(be2, le2 + be2)]

\* The sample bounds of _bit_width_alignment_scores.
PaddingSample == 4096
EntropySample == 2048

\* The credit for a length that is a multiple of the byte width.
AlignmentCredit(length, byte_width) ==
    IF length % byte_width = 0 THEN 300 ELSE 0

\* The bonus of the entropy tests.  The entropy of a chunk is at most log2
\* of the number of distinct byte values in it; the chunks explored hold at
\* most 8 distinct values, so their entropy is at most 3.0 and the tests
\* for 16, 32 and 64 bits, which all ask for more than 3.0, fail.
EntropyBonus(bits, chunk) == IF bits = 8 THEN 100 ELSE 0

\* The score of one width, rounded to thousandths.  The exact sum is
\* credit + bonus + 300 * aligned_zeros / total_checks.  It lies half-way
\* between two thousandths only when total_checks is a multiple of 8, so
\* from 16 bytes on; the error of the float sum then decides, where the
\* even thousandth is taken here.
BitWidthScore(data, bits) ==
    LET byte_width == bits \div 8
        length == Len(data)
        sample == Slice(data, 0, Min(length, PaddingSample))
        total_checks == Len(sample) \div byte_width
        aligned_zeros == Cardinality({k \in 1..total_checks :
                                          sample[k * byte_width] = 0})
        fixed == AlignmentCredit(length, byte_width)
                     + (IF byte_width <= length
                        THEN EntropyBonus(bits, Slice(data, 0,
                                                      Min(length, EntropySample)))
                        ELSE 0)
        whole == fixed + (300 * aligned_zeros) \div total_checks
        rest == (300 * aligned_zeros) % total_checks
    IN  IF ~(byte_width > 1 /\ length >= byte_width * 4) THEN fixed
        ELSE IF 2 * rest > total_checks THEN whole + 1
        ELSE IF 2 * rest < total_checks THEN whole
        ELSE IF whole % 2 = 0 THEN whole ELSE whole + 1

\* _bit_width_alignment_scores(data)
BitWidthAlignmentScores(data) ==
    [bits \in {8, 16, 32, 64} |-> BitWidthScore(data, bits)]

\* analyze_data(data) of an analyzer with the given max_sample.  Of the
\* result, the fields kept are file_size, byte_histogram, bit_width_scores
\* and endianness_scores.
AnalyzeData(data, max_sample) ==
    LET sample == Slice(data, 0, max_sample)
    IN  [file_size |-> Len(data),
         byte_histogram |-> ByteHistogram(sample),
         bit_width_scores |-> BitWidthAlignmentScores(data),
         endianness_scores |-> DetectEndianness(sample)]

\* analyze_file(path) for a file of the given content: max_sample bytes
\* are read and analysed, then file_size is set from the file.
AnalyzeFile(content, max_sample) ==
    [AnalyzeData(Slice(content, 0, max_sample), max_sample)
         EXCEPT !.file_size = Len(content)]

\* ---- inputs ---------------------------------------------------------

MaxFileLen == 9
MaxRun == 26

\* The max_sample of the analyzers explored (the default is 1048576).
SampleCaps == {4, 8}

AnalyzerInputs == UNION {[1..n -> {0, 65}] : n \in 0..MaxFileLen}

\* Words told apart by which of their bytes are zero.
EndianWords ==
    {<<0, 0, 1, 1>>, <<1, 0, 0, 1>>, <<1, 1, 1, 1>>, <<1, 1, 0, 0>>,
     <<0, 1, 1, 0>>}

RECURSIVE Repeat(_, _)
Repeat(w, n) == IF n = 0 THEN <<>> ELSE w \o Repeat(w, n - 1)

\* Up to MaxRun copies of one word, at most one of another, and a tail
\* that is not a whole word.
EndianInputs ==
    {Repeat(w1, n1) \o Repeat(w2, n2) \o t :
         w1 \in EndianWords, w2 \in EndianWords, n1 \in 0..MaxRun,
         n2 \in {0, 1}, t \in {<<>>, <<0, 0, 0>>}}

\* ---- actions --------------------------------------------------------

AnalyzeDataCall ==
    /\ fn = "analyze_data"
    /\ fpc = "call"
    /\ result' = Returned(AnalyzeData(args.data, args.max_sample))
    /\ fpc' = "done"
    /\ UNCHANGED <<fn, args, offset, fileVars, batchVars>>

AnalyzeFileCall ==
    /\ fn = "analyze_file"
    /\ fpc = "call"
    /\ result' = Returned(AnalyzeFile(args.data, args.max_sample))
    /\ fpc' = "done"
    /\ UNCHANGED <<fn, args, offset, fileVars, batchVars>>

DetectEndiannessCall ==
    /\ fn = "_detect_endianness"
    /\ fpc = "call"
    /\ result' = Returned(DetectEndianness(args.data))
    /\ fpc' = "done"
    /\ UNCHANGED <<fn, args, offset, fileVars, batchVars>>

InitAnalyzer ==
    /\ \/ /\ fn \in {"analyze_data", "analyze_file"}
          /\ \E d \in AnalyzerInputs, cap \in SampleCaps :
                 args = [data |-> d, max_sample |-> cap]
       \/ /\ fn = "_detect_endianness"
          /\ \E d \in EndianInputs : args = [data |-> d]
    /\ result = <<>>
    /\ offset = 0
    /\ fpc = "call"
    /\ FileIdle
    /\ BatchIdle

NextAnalyzer ==
    \/ AnalyzeDataCall
    \/ AnalyzeFileCall
    \/ DetectEndiannessCall

SpecAnalyzer == InitAnalyzer /\ [][NextAnalyzer]_vars

\* ---------------------------------------------------------------------
\* Claims about the analyzer

\* The bytes whose endianness was scored, and the scores.
EndianScored ==
    IF fn = "_detect_endianness" THEN args.data
    ELSE Slice(args.data, 0, args.max_sample)

EndianScores ==
    IF fn = "_detect_endianness" THEN result.value
    ELSE result.value.endianness_scores

\* The votes of the whole 4-byte words of a buffer, counted in halves: for
\* little, a full vote for a zero byte 3 and half a vote for a zero byte 2;
\* for big, a full vote for a zero byte 0 and half a vote for a zero byte 1.
RECURSIVE EndianVotes(_)
EndianVotes(d) ==
    IF Len(d) < 4 THEN [little |-> 0, big |-> 0]
    ELSE LET rest == EndianVotes(SubSeq(d, 5, Len(d)))
         IN  [little |-> rest.little + (IF d[4] = 0 THEN 2 ELSE 0)
                             + (IF d[3] = 0 THEN 1 ELSE 0),
              big |-> rest.big + (IF d[1] = 0 THEN 2 ELSE 0)
                          + (IF d[2] = 0 THEN 1 ELSE 0)]

AnalyzerDone ==
    /\ fn \in {"analyze_data", "analyze_file", "_detect_endianness"}
    /\ fpc = "done"

Analysed ==
    IF fn = "analyze_file" THEN Slice(args.data, 0, args.max_sample)
    ELSE args.data

AnalysisDone ==
    /\ fn \in {"analyze_data", "analyze_file"}
    /\ fpc = "done"

\* C19: the bit-width scores have the keys 8, 16, 32 and 64, each between
\* 0.0 and 1.0, and the score of a width holds the length credit 0.3
\* exactly when the length of the whole input, for analyze_file the file
\* size, is a multiple of the byte width.
C19_BitWidthCredit ==
    AnalysisDone =>
        LET scores == result.value.bit_width_scores
        IN  /\ DOMAIN scores = {8, 16, 32, 64}
            /\ \A bits \in {8, 16, 32, 64} :
                   /\ scores[bits] \in 0..1000
                   /\ scores[bits]
                          - (BitWidthScore(Analysed, bits)
                                 - AlignmentCredit(Len(Analysed), bits \div 8))
                      = (IF Len(args.data) % (bits \div 8) = 0 THEN 300 ELSE 0)

\* A file of nine bytes read with max_sample 8: file_size is 9, yet the
\* scores of 16, 32 and 64 bits hold the credit.
C19_CreditFromSampleLength ==
    /\ AnalysisDone
    /\ fn = "analyze_file"
    /\ args.max_sample = 8
    /\ args.data = <<65, 65, 65, 65, 65, 65, 65, 65, 65>>
    /\ result.value.file_size = 9
    /\ result.value.bit_width_scores[8] = 400
    /\ result.value.bit_width_scores[16] = 300
    /\ result.value.bit_width_scores[32] = 300
    /\ result.value.bit_width_scores[64] = 300

\* Through analyze_data the credit follows the length of the whole input.
C19_HoldsForAnalyzeData ==
    (AnalysisDone /\ fn = "analyze_data") => C19_BitWidthCredit

RECURSIVE SumOver(_, _)
SumOver(f, S) ==
    IF S = {} THEN 0
    ELSE LET x == CHOOSE y \in S : TRUE IN f[x] + SumOver(f, S \ {x})

\* C20: the byte histogram has an entry for each byte value 0..255, and
\* its counts sum to min(len(input), max_sample).
C20_FullHistogram ==
    AnalysisDone =>
        LET h == result.value.byte_histogram
        IN  /\ DOMAIN h = 0..255
            /\ SumOver(h, DOMAIN h) = Min(Len(args.data), args.max_sample)

\* The histogram of 65 65 0 has the two entries 0 and 65 and no other.
C20_SparseHistogram ==
    /\ AnalysisDone
    /\ fn = "analyze_data"
    /\ args.data = <<65, 65, 0>>
    /\ DOMAIN result.value.byte_histogram = {0, 65}
    /\ result.value.byte_histogram[0] = 1
    /\ result.value.byte_histogram[65] = 2

\* The entries are the byte values of the sample with their counts, which
\* sum to the sample length.
C20_CountsSumToSample ==
    AnalysisDone =>
        LET h == result.value.byte_histogram
            sample == Slice(args.data, 0, args.max_sample)
        IN  /\ DOMAIN h = Range(sample)
            /\ \A b \in DOMAIN h : h[b] > 0
            /\ SumOver(h, DOMAIN h) = Min(Len(args.data), args.max_sample)

\* ---------------------------------------------------------------------
\* classify_dat and classify_grd (disambiguate.py)
\*
\* A path is the sequence of its components; the file system is the set of
\* the paths that exist.

\* data[:n].decode("ascii", errors="ignore")
DecodeAsciiIgnore(data) == SelectSeq(data, LAMBDA b : b < 128)

UpperChar(c) == IF c \in 97..122 THEN c - 32 ELSE c

\* s.upper()
Upper(s) == [i \in 1..Len(s) |-> UpperChar(s[i])]

\* w in s, for a str w
HasSubstring(s, w) ==
    \E i \in 1..(Len(s) - Len(w) + 1) : SubSeq(s, i, i + Len(w) - 1) = w

\* s.replace(a, b), for single characters
Replace(s, a, b) == [i \in 1..Len(s) |-> IF s[i] = a THEN b ELSE s[i]]

\* path.with_suffix(suffix), for a path whose name is not empty
WithSuffix(p, suffix) ==
    LET name == p[Len(p)]
        stem == SubSeq(name, 1, Len(name) - Len(Suffix(p)))
    IN  [p EXCEPT ![Len(p)] = stem \o suffix]

\* Path(str(path) + tail)
PathPlus(p, tail) == [p EXCEPT ![Len(p)] = @ \o tail]

DotDfn == <<46, 100, 102, 110>>
DotGi == <<46, 103, 105>>
DotMig == <<46, 109, 105, 103>>
RFLX == <<82, 70, 76, 88>>
REFLEXW == <<82, 69, 70, 76, 69, 88, 87>>
HEADER == <<72, 69, 65, 68, 69, 82>>
DSAA == <<68, 83, 65, 65>>

TextWindow == 4096
AtWindow == 2048
BangWindow == 512
XyzWindow == 20
XyzLines == 10

\* [l.strip() for l in text.splitlines() if l.strip()]
NonBlankLines(text) ==
    LET ls == SplitLines(text)
    IN  SelectSeq([i \in 1..Len(ls) |-> Strip(ls[i])], LAMBDA l : l # <<>>)

\* The Res2DInv test: int(lines[1]) and float(lines[2].split()[0]) succeed.
LooksRes2DInv(lines) ==
    /\ Len(lines) >= 3
    /\ ~PyInt(lines[2]).raised
    /\ ~PyFloat(SplitWS(lines[3])[1]).raised

\* [float(t) for t in line.replace(",", " ").split()] succeeds.
NumericLine(line) ==
    \A t \in Range(SplitWS(Replace(line, 44, 32))) : ~PyFloat(t).raised

\* data[:4] == b"RFLX" or data[:6] == b"REFLEXW"
StartsWithReflexMarker(data) ==
    \/ Slice(data, 0, 4) = RFLX
    \/ Slice(data, 0, 6) = REFLEXW

\* classify_dat(data, path); path is <<>> for None, <<p>> otherwise.
classify_dat(data, path, exists) ==
    LET text == DecodeAsciiIgnore(Slice(data, 0, TextWindow))
        lines == NonBlankLines(text)
        numeric_lines ==
            Cardinality({i \in 1..Min(XyzWindow, Len(lines)) : NumericLine(lines[i])})
    IN  IF path # <<>> /\ WithSuffix(path[1], DotDfn) \in exists
        THEN "ASEG-GDF2"
        ELSE IF /\ Contains(Slice(text, 0, AtWindow), 64)
                /\ \/ Contains(Slice(text, 0, BangWindow), 33)
                   \/ HasSubstring(Upper(Slice(text, 0, AtWindow)), HEADER)
        THEN "ZMap+"
        ELSE IF LooksRes2DInv(lines) THEN "Res2DInv"
        ELSE IF StartsWithReflexMarker(data) THEN "ReflexW"
        ELSE IF numeric_lines >= XyzLines THEN "Generic ASCII XYZ"
        ELSE "Unknown .dat"

\* The Geosoft heuristic of classify_grd: a 512-byte header whose ES, SF, KX
\* and dimensions are valid and whose zmult is not zero.
GeosoftHeaderCheck(data) ==
    /\ Len(data) >= 512
    /\ I32(data, 0) \in {1, 2, 4, 8, 1025, 1026, 1028, 1032}
    /\ I32(data, 4) \in {0, 1, 2}
    /\ I32(data, 16) \in {-1, 1}
    /\ 0 < I32(data, 8) /\ I32(data, 8) < 1000000
    /\ 0 < I32(data, 12) /\ I32(data, 12) < 1000000
    /\ ~DoubleIsZero(F64(data, 68))

\* len(data) > 172 and data[168:172] == b"GRID"
HasGridMarker(data) ==
    Len(data) > 172 /\ Slice(data, 168, 172) = GRID_MARKER

\* classify_grd(data, path)
classify_grd(data, path, exists) ==
    IF Len(data) < 4 THEN "Unknown .grd (too small)"
    ELSE IF Slice(data, 0, 4) = DSAA THEN "Surfer ASCII Grid"
    ELSE IF Slice(data, 0, 4) = SURFER6_MAGIC THEN "Surfer 6 Binary Grid"
    ELSE IF Slice(data, 0, 4) = SURFER7_MAGIC THEN "Surfer 7 Binary Grid"
    ELSE IF path # <<>> /\ PathPlus(path[1], DotGi) \in exists
    THEN "Geosoft Binary Grid"
    ELSE IF HasGridMarker(data) THEN "Encom ModelVision Grid"
    ELSE IF GeosoftHeaderCheck(data) THEN "Geosoft Binary Grid"
    ELSE IF path # <<>> /\ WithSuffix(path[1], DotMig) \in exists
    THEN "Vertical Mapper Grid"
    ELSE "Unknown .grd"

\* not (ne <= 0 or nv <= 0 or ne > 1_000_000 or nv > 1_000_000)
DimensionsAccepted(ne, nv) ==
    ~(ne <= 0 \/ nv <= 0 \/ ne > 1000000 \/ nv > 1000000)

\* GeosoftParser.can_parse(data)
GeosoftCanParse(data) ==
    IF Len(data) < GeosoftHeaderSize THEN FALSE
    ELSE IF Slice(data, 0, 4) \in {SURFER6_MAGIC, SURFER7_MAGIC, DSAA} THEN FALSE
    ELSE LET hdr == ReadHeader(Slice(data, 0, GeosoftHeaderSize))
         IN  /\ hdr.n_bytes_per_element \in VALID_ES
             /\ hdr.ordering \in {-1, 1}
             /\ hdr.sign_flag \in {0, 1, 2, 3}
             /\ hdr.sign_flag # 3
             /\ DimensionsAccepted(hdr.shape_e, hdr.shape_v)
             /\ ~DoubleIsZero(hdr.data_factor)

\* ---- inputs ----------------------------------------------------------

RECURSIVE JoinLines(_)
JoinLines(ls) ==
    IF ls = <<>> THEN <<>>
    ELSE IF Len(ls) = 1 THEN ls[1]
    ELSE ls[1] \o <<10>> \o JoinLines(Tail(ls))

\* What a .dat buffer starts with.
DatHeads ==
    {<<>>, RFLX, REFLEXW, REFLEXW \o <<32, 49>>, <<128, 64, 33>>,
     <<82, 70, 76>>,
     <<64>>,
     <<33>>,
     <<64, 33>>,
     <<33, 64>>,
     <<64, 32, 104, 101, 97, 100, 101, 114>>,
     <<72, 69, 65, 68, 69, 82, 32, 120>>,
     <<64, 72, 69, 65, 68, 69, 82>>}

\* The lines that follow: titles, counts, numbers and words.
DatShortBodies ==
    {<<>>,
     <<<<84>>, <<50>>, <<49, 46, 53, 32, 120>>>>,
     <<<<84>>, <<120>>, <<49>>>>,
     <<<<84>>, <<50>>>>,
     <<<<84>>, <<50>>, <<120, 32, 49>>>>,
     <<<<50>>, <<51>>>>,
     <<<<84>>, <<43, 49, 95, 48>>, <<32, 105, 110, 102>>>>,
     <<<<84>>, <<50, 46, 48>>, <<49>>>>}

DatLineKinds ==
    {<<49, 44, 50, 32, 51>>, <<53>>, <<44>>, <<49, 101, 50, 9, 45, 46, 53>>, <<120>>}

\* n copies of one line after k copies of another.
DatColumns(first, k, then, n) ==
    [i \in 1..(k + n) |-> IF i <= k THEN first ELSE then]

DatLongBodies ==
    {DatColumns(a, k, b, n) :
        a \in {<<120>>}, b \in DatLineKinds,
        k \in {0, 1, XyzWindow - XyzLines + 1}, n \in {XyzLines - 1, XyzLines}}

DatBuffer(pad, head, body) ==
    pad \o head \o (IF body = <<>> THEN <<>> ELSE <<10>> \o JoinLines(body))

\* Leading bytes that move the markers across the windows of the checks.
DatPads ==
    {[i \in 1..n |-> 32] :
        n \in {BangWindow - 1, BangWindow, AtWindow - 2, AtWindow,
               TextWindow - 4}}
        \cup {[i \in 1..AtWindow |-> 128]}

DirD == <<100>>
DatPaths == {<<DirD, <<97, 46, 100, 97, 116>>>>, <<DirD, <<97>>>>}
DatSiblings == {<<DirD, <<97, 46, 100, 102, 110>>>>, <<DirD, <<97, 46, 100, 97, 116, 46, 100, 102, 110>>>>}
GrdPath == <<DirD, <<97, 46, 103, 114, 100>>>>
GrdSiblings ==
    {<<DirD, <<97, 46, 103, 114, 100, 46, 103, 105>>>>, <<DirD, <<97, 46, 103, 105>>>>, <<DirD, <<97, 46, 109, 105, 103>>>>}

DatInputs ==
    {[data |-> DatBuffer(<<>>, h, b), path |-> p, exists |-> e] :
        h \in DatHeads, b \in DatShortBodies \cup DatLongBodies,
        p \in {<<>>}, e \in {{}}}
    \cup {[data |-> DatBuffer(<<>>, h, b), path |-> <<p>>, exists |-> e] :
        h \in {<<>>, <<64, 33>>, RFLX}, b \in {<<>>, <<<<84>>, <<50>>, <<49>>>>},
        p \in DatPaths, e \in SUBSET DatSiblings}
    \cup {[data |-> DatBuffer(pad, h, b), path |-> <<>>, exists |-> {}] :
        pad \in DatPads, h \in DatHeads,
        b \in {<<>>, <<<<50>>, <<51>>>>}}

Zeros(n) == [i \in 1..n |-> 0]

\* data with the bytes of patch written at offset off
Overlay(data, off, patch) ==
    [i \in 1..Len(data) |->
        IF off < i /\ i <= off + Len(patch) THEN patch[i - off] ELSE data[i]]

GrdHeaders ==
    [es : {1, 3}, sf : {0, 3}, ne : {1, 0, 999999, 1000000, 1000001},
     nv : {1, 1000000}, kx : {-1, 0}, zmult : {Zero64, One64}, zbase : {Zero64}]

GrdBuffers ==
    {<<>>, <<68, 83, 65>>, Zeros(4), Zeros(172), Zeros(168) \o GRID_MARKER,
     Zeros(168) \o GRID_MARKER \o <<0>>, Zeros(169) \o GRID_MARKER}
    \cup {Overlay(d, 0, magic) :
            magic \in {DSAA, SURFER6_MAGIC, SURFER7_MAGIC},
            d \in {Zeros(4), Zeros(168) \o GRID_MARKER \o <<0>>,
                   GeosoftHeaderBytes([es |-> 1, sf |-> 0, ne |-> 1, nv |-> 1,
                       kx |-> 1, zmult |-> One64, zbase |-> Zero64])}}
    \cup {GeosoftHeaderBytes(h) : h \in GrdHeaders}
    \cup {Slice(GeosoftHeaderBytes(h), 0, GeosoftHeaderSize - 1) \o tail :
            h \in [es : {1032}, sf : {2}, ne : {1}, nv : {1}, kx : {1},
                   zmult : {One64, Two64}, zbase : {Zero64}],
            tail \in {<<>>, <<0>>, <<0, 7>>}}
    \cup {Overlay(GeosoftHeaderBytes(h), GRID_MARKER_OFFSET, GRID_MARKER) :
            h \in [es : {2}, sf : {1}, ne : {999999}, nv : {1}, kx : {1},
                   zmult : {Zero64, Two64}, zbase : {Zero64}]}

GrdInputs ==
    {[data |-> d, path |-> <<>>, exists |-> {}] : d \in GrdBuffers}
    \cup {[data |-> d, path |-> <<GrdPath>>, exists |-> e] :
            d \in GrdBuffers, e \in SUBSET GrdSiblings}

\* ---- actions ---------------------------------------------------------

ClassifyDatCall ==
    /\ fn = "classify_dat"
    /\ fpc = "call"
    /\ result' = Returned(classify_dat(args.data, args.path, args.exists))
    /\ fpc' = "done"
    /\ UNCHANGED <<fn, args, offset, fileVars, batchVars>>

ClassifyGrdCall ==
    /\ fn = "classify_grd"
    /\ fpc = "call"
    /\ result' = Returned(classify_grd(args.data, args.path, args.exists))
    /\ fpc' = "done"
    /\ UNCHANGED <<fn, args, offset, fileVars, batchVars>>

GeosoftCanParseCall ==
    /\ fn = "geosoft.can_parse"
    /\ fpc = "call"
    /\ result' = Returned(GeosoftCanParse(args.data))
    /\ fpc' = "done"
    /\ UNCHANGED <<fn, args, offset, fileVars, batchVars>>

InitClassify ==
    /\ \/ fn = "classify_dat" /\ args \in DatInputs
       \/ fn = "classify_grd" /\ args \in GrdInputs
       \/ /\ fn = "geosoft.can_parse"
          /\ \E d \in GrdBuffers : args = [data |-> d]
    /\ result = <<>>
    /\ offset = 0
    /\ fpc = "call"
    /\ FileIdle
    /\ BatchIdle

NextClassify ==
    \/ ClassifyDatCall
    \/ ClassifyGrdCall
    \/ GeosoftCanParseCall

SpecClassify == InitClassify /\ [][NextClassify]_vars

\* ---------------------------------------------------------------------
\* Claims about the disambiguators

ClassifyDone(f) == fn = f /\ fpc = "done"

\* The buffer begins with the marker RFLX or with the marker REFLEXW.
BeginsWithReflexMarker(data) ==
    \/ SubSeq(data, 1, Min(4, Len(data))) = RFLX
    \/ SubSeq(data, 1, Min(7, Len(data))) = REFLEXW

\* The label the ordered chain of .dat checks gives an input.
DatChainLabel(a) ==
    LET text == DecodeAsciiIgnore(Slice(a.data, 0, TextWindow))
        lines == NonBlankLines(text)
        first20 == SubSeq(lines, 1, Min(XyzWindow, Len(lines)))
    IN  IF a.path # <<>> /\ WithSuffix(a.path[1], DotDfn) \in a.exists
        THEN "ASEG-GDF2"
        ELSE IF /\ 64 \in Range(Slice(text, 0, AtWindow))
                /\ \/ 33 \in Range(Slice(text, 0, BangWindow))
                   \/ HasSubstring(Upper(Slice(text, 0, AtWindow)), HEADER)
        THEN "ZMap+"
        ELSE IF LooksRes2DInv(lines) THEN "Res2DInv"
        ELSE IF BeginsWithReflexMarker(a.data) THEN "ReflexW"
        ELSE IF Cardinality({i \in 1..Len(first20) : NumericLine(first20[i])})
                    >= XyzLines
        THEN "Generic ASCII XYZ"
        ELSE "Unknown .dat"

\* C22: classify_dat returns the label of the first check that succeeds in
\* the order companion .dfn, ZMap+ markers, Res2DInv lines, ReflexW marker
\* (RFLX or REFLEXW at the start of the buffer), numeric columns, and the
\* unknown label when none succeeds.
C22_ClassifyDatChain ==
    ClassifyDone("classify_dat") => result.value = DatChainLabel(args)

\* A buffer that begins with REFLEXW and passes no earlier check is not
\* labelled ReflexW.
C22_ReflexwMarkerMissed ==
    /\ ClassifyDone("classify_dat")
    /\ Slice(args.data, 0, 7) = REFLEXW
    /\ DatChainLabel(args) = "ReflexW"
    /\ result.value = "Unknown .dat"

\* Apart from buffers that begin with REFLEXW, the chain is followed.
C22_ChainWithoutReflexw ==
    (ClassifyDone("classify_dat") /\ Slice(args.data, 0, 7) # REFLEXW)
        => result.value = DatChainLabel(args)

\* The definite label the ordered chain of .grd checks gives an input, ""
\* when no check succeeds.
GrdChainLabel(a) ==
    LET magic4 == SubSeq(a.data, 1, Min(4, Len(a.data)))
    IN  IF magic4 = DSAA THEN "Surfer ASCII Grid"
        ELSE IF magic4 = SURFER6_MAGIC THEN "Surfer 6 Binary Grid"
        ELSE IF magic4 = SURFER7_MAGIC THEN "Surfer 7 Binary Grid"
        ELSE IF a.path # <<>> /\ PathPlus(a.path[1], DotGi) \in a.exists
        THEN "Geosoft Binary Grid"
        ELSE IF /\ Len(a.data) >= GRID_MARKER_OFFSET + 4
                /\ SubSeq(a.data, GRID_MARKER_OFFSET + 1, GRID_MARKER_OFFSET + 4)
                       = GRID_MARKER
        THEN "Encom ModelVision Grid"
        ELSE IF GeosoftHeaderCheck(a.data) THEN "Geosoft Binary Grid"
        ELSE IF a.path # <<>> /\ WithSuffix(a.path[1], DotMig) \in a.exists
        THEN "Vertical Mapper Grid"
        ELSE ""

UnknownGrd == {"Unknown .grd", "Unknown .grd (too small)"}

\* C23: classify_grd returns, for any sample and any set of sibling files,
\* the label of the first check that succeeds in the order magic, companion
\* .gi, GRID at offset 168, valid 512-byte Geosoft header, sibling .mig, and
\* an unknown label when none succeeds.
C23_ClassifyGrdChain ==
    ClassifyDone("classify_grd") =>
        IF GrdChainLabel(args) = "" THEN result.value \in UnknownGrd
        ELSE result.value = GrdChainLabel(args)

\* A sample of 172 bytes that ends with GRID at offset 168 is not labelled
\* Encom.
C23_MarkerAtEndMissed ==
    /\ ClassifyDone("classify_grd")
    /\ Len(args.data) = GRID_MARKER_OFFSET + 4
    /\ Slice(args.data, GRID_MARKER_OFFSET, GRID_MARKER_OFFSET + 4) = GRID_MARKER
    /\ result.value = "Unknown .grd"

\* On samples of 4 bytes or more that are not exactly 172 bytes long, the
\* chain is followed; a magic match wins over every companion file.
C23_ChainOnOtherSamples ==
    (/\ ClassifyDone("classify_grd")
     /\ Len(args.data) >= 4
     /\ Len(args.data) # GRID_MARKER_OFFSET + 4)
        => IF GrdChainLabel(args) = "" THEN result.value = "Unknown .grd"
           ELSE result.value = GrdChainLabel(args)

\* The header validation as it is stated: element size, sign flag and
\* ordering in their sets, both dimensions strictly between 0 and
\* 1,000,000, scale factor not zero.
StatedHeaderValid(data) ==
    /\ I32(data, 0) \in {1, 2, 4, 8, 1025, 1026, 1028, 1032}
    /\ I32(data, 4) \in {0, 1, 2}
    /\ I32(data, 16) \in {-1, 1}
    /\ I32(data, 8) \in 1..999999
    /\ I32(data, 12) \in 1..999999
    /\ ~DoubleIsZero(F64(data, 68))

CanParseDone ==
    /\ ClassifyDone("geosoft.can_parse")
    /\ Len(args.data) >= 512
    /\ Slice(args.data, 0, 4) \notin {DSAA, SURFER6_MAGIC, SURFER7_MAGIC}

\* C24: for every buffer of at least 512 bytes that does not start with
\* DSAA, DSBB or DSRB, GeosoftParser.can_parse accepts exactly when the
\* Geosoft header check of classify_grd accepts, which is the stated
\* validation.
C24_SameHeaderPredicate ==
    CanParseDone =>
        /\ result.value = GeosoftHeaderCheck(args.data)
        /\ result.value = StatedHeaderValid(args.data)

\* can_parse accepts a header with a dimension of exactly 1,000,000, which
\* the header check of classify_grd rejects.
C24_AcceptsMillion ==
    /\ CanParseDone
    /\ I32(args.data, 8) = 1000000 \/ I32(args.data, 12) = 1000000
    /\ result.value = TRUE
    /\ ~GeosoftHeaderCheck(args.data)

\* With both dimensions away from 1,000,000 the two predicates agree, and
\* the header check of classify_grd is the stated validation everywhere.
C24_AgreeOffTheLimit ==
    CanParseDone =>
        /\ GeosoftHeaderCheck(args.data) = StatedHeaderValid(args.data)
        /\ (I32(args.data, 8) # 1000000 /\ I32(args.data, 12) # 1000000)
               => result.value = GeosoftHeaderCheck(args.data)

\* ---------------------------------------------------------------------
\* The stored layout of VAX F_floating

\* The first and the second 16-bit word of the stored value, little-endian.
StoredWord0(data) == data[1] + 256 * data[2]
StoredWord1(data) == data[3] + 256 * data[4]

\* C25: for a stored VAX F value whose first word holds the sign in bit 15,
\* the excess-128 exponent e in bits 14-7 and the 7 high fraction bits, and
\* whose second word holds the 16 low fraction bits, vax_f_to_ieee returns
\* for every e >= 3 the float32 with that sign, exponent field e - 2 and the
\* same 23-bit fraction; 80 40 00 00 decodes to 1.0.
C25_VaxFStoredLayout ==
    (LegacyDone /\ fn = "vax_f_to_ieee" /\ Len(args.data) = 4) =>
        LET w0 == StoredWord0(args.data)
            e == (w0 \div 128) % 256
        IN  e >= 3 =>
                result = Returned([s |-> w0 \div 32768, e |-> e - 2,
                                   m |-> 65536 * (w0 % 128)
                                             + StoredWord1(args.data)])

\* The stored 1.0, 80 40 00 00, decodes to 0.0.
C25_StoredOneIsZero ==
    /\ LegacyDone
    /\ fn = "vax_f_to_ieee"
    /\ args.data = <<128, 64, 0, 0>>
    /\ result = Returned(ZeroFloat32)

\* The routine decodes the layout with the two words exchanged: sign,
\* exponent and high fraction bits in the second word.
C25_DecodesSwappedWords ==
    (LegacyDone /\ fn = "vax_f_to_ieee" /\ Len(args.data) = 4) =>
        LET w1 == StoredWord1(args.data)
            e == (w1 \div 128) % 256
        IN  e >= 3 =>
                result = Returned([s |-> w1 \div 32768, e |-> e - 2,
                                   m |-> 65536 * (w1 % 128)
                                             + StoredWord0(args.data)])

\* ---------------------------------------------------------------------
\* The tag loop of Surfer7Parser.parse

\* The scheduler of the loop is the interpreter: a step that can be taken is
\* taken.
SpecSurfer7Live == SpecSurfer7 /\ WF_vars(NextSurfer7)

InTagLoop == fn = "surfer7.parse" /\ fpc = "loop"

\* C26: the tag loop terminates on every finite buffer; each iteration reads
\* one (id, size) tag and moves the offset forward by 8 + size, a section
\* whose id is not the grid tag leaves the result as it was, and the loop
\* ends when fewer than 8 bytes remain or right after a tag of size 0.
C26_TagLoopTerminates ==
    /\ [][(InTagLoop /\ offset + 8 <= Len(args.data)) =>
             LET tag_id == U32(args.data, offset)
                 tag_size == U32(args.data, offset + 4)
             IN  /\ offset' = offset + 8 + tag_size
                 /\ offset' > offset
                 /\ tag_id # TAG_GRID => result' = result
                 /\ fpc' = IF tag_size = 0 THEN "done" ELSE "loop"]_vars
    /\ [][(InTagLoop /\ offset + 8 > Len(args.data)) =>
             (fpc' = "done" /\ result' = result /\ offset' = offset)]_vars
    /\ [][fpc = "done" => fpc' = "done"]_vars
    /\ <>(fpc = "done")

\* The loop has ended after skipping the header section and an unrelated
\* section and decoding the grid section, with fewer than 8 bytes left.
C26_Witness ==
    /\ fn = "surfer7.parse"
    /\ fpc = "done"
    /\ args.given # <<>>
    /\ args.given[1].pre /\ args.given[1].hs = 4
    /\ args.given[1].size = "full" /\ args.given[1].keep = "all"
    /\ offset = Surfer7GridOffset(args.given[1]) + 8
                    + Surfer7DeclaredSize(args.given[1])
    /\ offset + 8 > Len(args.data)
    /\ result.value.header # <<>>

\* The loop has ended right after a tag of size 0, with bytes left to read.
C26_EndedOnEmptyTag ==
    (fn = "surfer7.parse" /\ fpc = "done" /\ args.given # <<>>
        /\ args.given[1].hs = 0)
        => (offset = 8 /\ result = Returned(ParseResult("Surfer 7 Binary Grid")))

\* ---------------------------------------------------------------------
\* _parse_ers_header (parsers/ermapper.py)
\*
\* The dicts the function creates are the members of a heap, numbered in the
\* order of their creation (1 is result); a dict is the sequence of its
\* items, and an item whose value is a dict holds that dict's number.  The
\* stack is the sequence of the numbers of the open dicts.

DictRef(id) == [t |-> "dict", v |-> id]

\* \w of a pattern on the code points a decoded text can hold
IsWordChar(c) == c \in (48..57) \cup (65..90) \cup (97..122) \cup {95}

IsWord(s) == s # <<>> /\ \A i \in 1..Len(s) : IsWordChar(s[i])

\* s.startswith(w)
StartsWith(s, w) == Len(s) >= Len(w) /\ SubSeq(s, 1, Len(w)) = w

BEGIN_LOWER == <<98, 101, 103, 105, 110>>
END_LOWER == <<101, 110, 100>>

\* The group of ^(\w+)\s+keyword\s*$ with IGNORECASE on a stripped line:
\* <<word>>, or <<>> when the line does not match.
WordBefore(stripped, keyword) ==
    LET n == Len(stripped) - Len(keyword)
        head == SubSeq(stripped, 1, n)
        ends == {k \in 1..(n - 1) :
                    /\ IsWord(SubSeq(head, 1, k))
                    /\ \A j \in (k + 1)..n : head[j] \in WhiteSpace}
    IN  IF /\ n >= 2
           /\ Lower(SubSeq(stripped, n + 1, Len(stripped))) = keyword
           /\ ends # {}
        THEN <<SubSeq(head, 1, CHOOSE k \in ends : TRUE)>>
        ELSE <<>>

\* re.match(r"^(\w+)\s+Begin\s*$", stripped, re.IGNORECASE)
BeginMatch(stripped) == WordBefore(stripped, BEGIN_LOWER)

\* re.match(r"^(\w+\s+)?End\s*$", stripped, re.IGNORECASE)
EndMatch(stripped) ==
    Lower(stripped) = END_LOWER \/ WordBefore(stripped, END_LOWER) # <<>>

\* re.match(r'^(\w+)\s*=\s*"?([^"]*)"?\s*$', stripped): whether it matches,
\* the key, and the value group after val.strip().
KeyValueMatch(stripped) ==
    LET none == [matched |-> FALSE, key |-> <<>>, val |-> <<>>]
        eqs == {i \in 1..Len(stripped) : stripped[i] = 61}
        p == CHOOSE i \in eqs : \A j \in eqs : i <= j
        before == Strip(SubSeq(stripped, 1, p - 1))
        rest == Strip(SubSeq(stripped, p + 1, Len(stripped)))
        quotes == {i \in 1..Len(rest) : rest[i] = 34}
        opened == rest # <<>> /\ rest[1] = 34
        closed == rest # <<>> /\ rest[Len(rest)] = 34
        found(v) == [matched |-> TRUE, key |-> before, val |-> Strip(v)]
    IN  IF eqs = {} THEN none
        ELSE IF ~(IsWord(before) /\ StartsWith(stripped, before)) THEN none
        ELSE CASE Cardinality(quotes) = 0 -> found(rest)
               [] Cardinality(quotes) = 1 /\ opened -> found(Tail(rest))
               [] Cardinality(quotes) = 1 /\ closed ->
                      found(SubSeq(rest, 1, Len(rest) - 1))
               [] Cardinality(quotes) = 2 /\ opened /\ closed ->
                      found(SubSeq(rest, 2, Len(rest) - 1))
               [] OTHER -> none

\* The numeric conversion: int(val), else float(val), else the str.
ErsValue(val) ==
    IF ~PyInt(val).raised THEN IntValue(PyInt(val).value)
    ELSE IF ~PyFloat(val).raised THEN FloatOf(PyFloat(val).value)
    ELSE StrValue(val)

\* result = {}; stack = [result]
ErsStart == [heap |-> <<<<>>>>, stack |-> <<1>>]

ErsTop(st) == st.stack[Len(st.stack)]

\* Mutant: the new mapping is stored and not pushed.
ErsBeginNoPush(st, key) ==
    LET child == Len(st.heap) + 1
    IN  [heap |-> Append([st.heap EXCEPT ![ErsTop(st)] =
                              DictSet(@, key, DictRef(child))], <<>>),
         stack |-> st.stack]

\* child = {}; stack[-1][key] = child; stack.append(child)
ErsBegin(st, key) ==
    LET child == Len(st.heap) + 1
    IN  [heap |-> Append([st.heap EXCEPT ![ErsTop(st)] =
                              DictSet(@, key, DictRef(child))], <<>>),
         stack |-> Append(st.stack, child)]

\* if len(stack) > 1: stack.pop()
ErsEnd(st) ==
    IF Len(st.stack) > 1
    THEN [st EXCEPT !.stack = SubSeq(@, 1, Len(@) - 1)]
    ELSE st

\* stack[-1][key] = val
ErsAssign(st, key, val) ==
    [st EXCEPT !.heap[ErsTop(st)] = DictSet(@, key, ErsValue(val))]

\* The body of the for loop, on one line.
ErsLine(st, line) ==
    LET stripped == Strip(line)
    IN  IF stripped = <<>> \/ StartsWith(stripped, <<47, 47>>) THEN st
        ELSE IF BeginMatch(stripped) # <<>>
        THEN ErsBegin(st, BeginMatch(stripped)[1])
        ELSE IF EndMatch(stripped) THEN ErsEnd(st)
        ELSE IF KeyValueMatch(stripped).matched
        THEN ErsAssign(st, KeyValueMatch(stripped).key,
                       KeyValueMatch(stripped).val)
        ELSE st

\* The nested dict that dict id of the heap is.
RECURSIVE Nested(_, _)
Nested(heap, id) ==
    [i \in 1..Len(heap[id]) |->
        IF heap[id][i].value.t = "dict"
        THEN [key |-> heap[id][i].key,
              value |-> [t |-> "dict", v |-> Nested(heap, heap[id][i].value.v)]]
        ELSE heap[id][i]]

\* _parse_ers_header(text), the loop run to its end
RECURSIVE ErsLinesFrom(_, _, _)
ErsLinesFrom(lines, i, st) ==
    IF i > Len(lines) THEN st
    ELSE ErsLinesFrom(lines, i + 1, ErsLine(st, lines[i]))

parse_ers_header(text) ==
    Nested(ErsLinesFrom(SplitLines(text), 1, ErsStart).heap, 1)

\* ---- inputs ----------------------------------------------------------

MaxLines == 4

\* Lines that open a block, close one, and assign a key.
ErsLineKinds ==
    {<<65, 32, 66, 101, 103, 105, 110>>,
     <<98, 32, 32, 98, 101, 103, 105, 110>>,
     <<69, 110, 100>>,
     <<65, 32, 69, 110, 100>>,
     <<107, 32, 61, 32, 49>>,
     <<65, 61, 120>>,
     <<69, 110, 100, 32, 66, 101, 103, 105, 110>>}

\* Headers with line ends, comments, quotes and numbers of every kind.
ErsSamples ==
    {<<68, 97, 116, 97, 115, 101, 116, 72, 101, 97, 100, 101, 114, 32, 66, 101, 103, 105, 110, 13, 10, 32, 32, 86, 101, 114, 115, 105, 111, 110, 32, 61, 32, 34, 49, 46, 48, 34, 13, 10, 68, 97, 116, 97, 115, 101, 116, 72, 101, 97, 100, 101, 114, 32, 69, 110, 100, 13, 10>>,
     <<65, 32, 66, 101, 103, 105, 110, 10, 9, 107, 32, 61, 32, 34, 118, 32, 119, 34, 32, 10, 32, 47, 47, 32, 99, 10, 10, 32, 66, 32, 66, 69, 71, 73, 78, 10, 32, 106, 61, 45, 50, 46, 53, 101, 49, 10, 32, 66, 101, 103, 105, 110, 32, 69, 110, 100, 10, 65, 32, 61, 32, 34, 10, 122, 32, 61, 32, 97, 34, 98, 10>>,
     <<66, 101, 103, 105, 110, 10, 66, 101, 103, 105, 110, 32, 66, 101, 103, 105, 110, 10, 69, 78, 68, 10, 61, 32, 51, 10, 107, 32, 107, 32, 61, 32, 49, 10, 107, 32, 61, 61, 32, 49, 10, 113, 32, 61, 32, 34, 97, 34, 32, 34, 10, 69, 110, 100, 32, 61, 32, 49, 95, 48, 10>>,
     <<65, 32, 66, 101, 103, 105, 110, 10, 120, 61, 49, 10, 65, 32, 69, 110, 100, 10, 65, 32, 66, 101, 103, 105, 110, 10, 65, 32, 69, 110, 100, 10, 65, 32, 61, 32, 105, 110, 102, 10, 101, 110, 100, 32, 66, 101, 103, 105, 110, 10, 120, 32, 61, 32, 110, 97, 110, 10>>}

ErsTexts ==
    {JoinLines(ls) : ls \in SeqsUpTo(ErsLineKinds, MaxLines)} \cup ErsSamples

\* ---- actions ---------------------------------------------------------
\* While the loop runs, result holds the heap and the stack.

ErsEnter ==
    /\ fn = "_parse_ers_header"
    /\ fpc = "call"
    /\ result' = ErsStart
    /\ offset' = 0
    /\ fpc' = "loop"
    /\ UNCHANGED <<fn, args, fileVars, batchVars>>

ErsNextLine ==
    /\ fn = "_parse_ers_header"
    /\ fpc = "loop"
    /\ offset < Len(SplitLines(args.text))
    /\ result' = ErsLine(result, SplitLines(args.text)[offset + 1])
    /\ offset' = offset + 1
    /\ UNCHANGED <<fn, args, fpc, fileVars, batchVars>>

ErsReturn ==
    /\ fn = "_parse_ers_header"
    /\ fpc = "loop"
    /\ offset >= Len(SplitLines(args.text))
    /\ result' = Returned(Nested(result.heap, 1))
    /\ fpc' = "done"
    /\ UNCHANGED <<fn, args, offset, fileVars, batchVars>>

InitErs ==
    /\ fn = "_parse_ers_header"
    /\ \E text \in ErsTexts : args = [text |-> text]
    /\ result = <<>>
    /\ offset = 0
    /\ fpc = "call"
    /\ FileIdle
    /\ BatchIdle

NextErs ==
    \/ ErsEnter
    \/ ErsNextLine
    \/ ErsReturn

SpecErs == InitErs /\ [][NextErs]_vars

\* ---------------------------------------------------------------------
\* Claims about _parse_ers_header

ErsRunning == fn = "_parse_ers_header" /\ fpc = "loop"

\* What a line is: it opens the block named, closes a block, assigns a key,
\* or does nothing.
ErsKind(line) ==
    LET stripped == Strip(line)
    IN  IF stripped = <<>> \/ StartsWith(stripped, <<47, 47>>) THEN "skip"
        ELSE IF BeginMatch(stripped) # <<>> THEN "begin"
        ELSE IF EndMatch(stripped) THEN "end"
        ELSE IF KeyValueMatch(stripped).matched THEN "assign"
        ELSE "skip"

\* The names of the blocks open after the first n lines: those begun and not
\* yet ended, outermost first.
RECURSIVE OpenBlocks(_, _)
OpenBlocks(lines, n) ==
    IF n = 0 THEN <<>>
    ELSE LET before == OpenBlocks(lines, n - 1)
             kind == ErsKind(lines[n])
         IN  IF kind = "begin"
             THEN Append(before, BeginMatch(Strip(lines[n]))[1])
             ELSE IF kind = "end" /\ before # <<>>
             THEN SubSeq(before, 1, Len(before) - 1)
             ELSE before

\* The mapping tree with key set to value inside the blocks named by path.
RECURSIVE TreePut(_, _, _, _)
TreePut(tree, path, key, value) ==
    IF path = <<>> THEN DictSet(tree, key, value)
    ELSE [i \in 1..Len(tree) |->
            IF tree[i].key = path[1]
            THEN [key |-> tree[i].key,
                  value |-> [t |-> "dict",
                             v |-> TreePut(tree[i].value.v, Tail(path), key,
                                           value)]]
            ELSE tree[i]]

\* The nested mapping after the first n lines: every key under the blocks
\* that were open at its line.
RECURSIVE TreeAfter(_, _)
TreeAfter(lines, n) ==
    IF n = 0 THEN <<>>
    ELSE LET before == TreeAfter(lines, n - 1)
             open == OpenBlocks(lines, n - 1)
             stripped == Strip(lines[n])
             kind == ErsKind(lines[n])
         IN  IF kind = "begin"
             THEN TreePut(before, open, BeginMatch(stripped)[1],
                          [t |-> "dict", v |-> <<>>])
             ELSE IF kind = "assign"
             THEN TreePut(before, open, KeyValueMatch(stripped).key,
                          ErsValue(KeyValueMatch(stripped).val))
             ELSE before

\* C27: while _parse_ers_header reads its lines the stack is never empty and
\* has the root mapping at the bottom; each open scope is the mapping stored
\* in the scope below it under the name of the block that opened it, the
\* open scopes are the blocks begun and not yet ended (a surplus End pops
\* nothing), and the mapping built so far has every key nested under
\* exactly the block names that were open at its line.
C27_ScopeStack ==
    ErsRunning =>
        LET lines == SplitLines(args.text)
            open == OpenBlocks(lines, offset)
        IN  /\ result.stack # <<>>
            /\ result.stack[1] = 1
            /\ Len(result.stack) = Len(open) + 1
            /\ \A k \in 1..Len(open) :
                   /\ DictHas(result.heap[result.stack[k]], open[k])
                   /\ DictGet(result.heap[result.stack[k]], open[k])
                          = DictRef(result.stack[k + 1])
            /\ Nested(result.heap, 1) = TreeAfter(lines, offset)

\* After "A Begin", "b  begin", "k = 1", "End": the stack holds the root and
\* block A, and k is nested under A and b.
C27_Witness ==
    /\ ErsRunning
    /\ offset = 4
    /\ SplitLines(args.text) =
           <<<<65, 32, 66, 101, 103, 105, 110>>,
             <<98, 32, 32, 98, 101, 103, 105, 110>>,
             <<107, 32, 61, 32, 49>>, <<69, 110, 100>>>>
    /\ result.stack = <<1, 2>>
    /\ Nested(result.heap, 1) =
           <<[key |-> <<65>>,
              value |-> [t |-> "dict", v |->
                  <<[key |-> <<98>>,
                     value |-> [t |-> "dict", v |->
                         <<[key |-> <<107>>, value |-> IntValue(1)]>>]]>>]]>>

\* A surplus End has been read: only the root is open.
C27_SurplusEndIgnored ==
    (/\ ErsRunning
     /\ offset > 0
     /\ ErsKind(SplitLines(args.text)[offset]) = "end"
     /\ OpenBlocks(SplitLines(args.text), offset - 1) = <<>>)
        => result.stack = <<1>>

\* ---------------------------------------------------------------------
\* Header and data lines of ZMapParser.parse

\* in_header when the first loop of parse reaches line i.
InHeaderAt(lines, i) ==
    ZMapHeaderLoop(SubSeq(lines, 1, i - 1), 1, <<>>, 0, FALSE).in_header

\* A line that is not blank and starts with neither "!" nor "@".
IsRow(line) ==
    LET stripped == Strip(line)
    IN  stripped # <<>> /\ stripped[1] \notin {33, 64}

\* The rows the first loop reads inside the header.
HeaderRows(lines) ==
    {i \in 1..Len(lines) : IsRow(lines[i]) /\ InHeaderAt(lines, i)}

\* The rows whose tokens the second loop of parse reads.
DataRows(lines) ==
    LET h == ZMapHeaderLoop(lines, 1, <<>>, 0, FALSE)
    IN  {i \in 1..Len(lines) : i > h.data_start /\ IsRow(lines[i])}

\* The number of tokens of a line that float() accepts.
FloatTokens(line) ==
    LET tokens == SplitWS(Strip(line))
    IN  Cardinality({k \in 1..Len(tokens) : ~PyFloat(tokens[k]).raised})

ZMapDone == fn = "zmap.parse" /\ fpc = "done" /\ ~result.raised

ZMapLines == SplitLines(DecodeAscii(args.data))

\* C28: ZMapParser.parse separates header from data for every input: the
\* rows read inside the header (between the first "@" line and the next)
\* only supply header fields, and no token of a header row, of an "@" line
\* or of a "!" line appears among the returned data values.
C28_HeaderNeverInData ==
    ZMapDone =>
        /\ \A i \in HeaderRows(ZMapLines) :
               i \in DataRows(ZMapLines) => FloatTokens(ZMapLines[i]) = 0
        /\ \A i \in DataRows(ZMapLines) : IsRow(ZMapLines[i])

\* A header never closed by a second "@" line: the last field of each of
\* its two rows comes back as a data value.
C28_HeaderTokenInData ==
    /\ ZMapDone
    /\ ~args.given[1].closed
    /\ args.given[1].comment = <<>>
    /\ args.given[1].data.text = <<>>
    /\ args.given[1].row1.null = <<[kind |-> "num", m |-> 1, e |-> 2]>>
    /\ HeaderRows(ZMapLines) = {2, 3}
    /\ DataRows(ZMapLines) = {2, 3}
    /\ result.value.data = <<<<[kind |-> "num", m |-> 1, e |-> 0]>>,
                             <<[kind |-> "num", m |-> 1, e |-> 0]>>>>

\* What parse does: the data values are the float tokens of every row
\* after the last "@" line that closed a header (of every row when none
\* did), header rows included; "@" and "!" lines give none; and once the
\* header is closed no header row is read as data.
C28_DataFromDataStart ==
    ZMapDone =>
        /\ Len(result.value.data) =
               SumOver([i \in 1..Len(ZMapLines) |-> FloatTokens(ZMapLines[i])],
                       DataRows(ZMapLines))
        /\ args.given[1].closed =>
               HeaderRows(ZMapLines) \cap DataRows(ZMapLines) = {}
        /\ ~args.given[1].closed => HeaderRows(ZMapLines) \subseteq DataRows(ZMapLines)

\* ---------------------------------------------------------------------
\* Printable strings (analyzer.py, _find_printable_strings)
\*
\* A str is the sequence of its code points; chr(byte) is the code point
\* equal to the byte.  While the loop runs, result holds strings and
\* current, and offset counts the bytes read.

PrintableLow == 32
PrintableHigh == 126
DefaultMinLength == 4

IsPrintable(byte) == PrintableLow <= byte /\ byte <= PrintableHigh

\* Mutant: the run still open when the buffer ends is dropped.
NoFinalFlush(strings, current, min_length) == strings

\* if len(current) >= min_length: strings.append("".join(current))
FlushRun(strings, current, min_length) ==
    IF Len(current) >= min_length THEN Append(strings, current) ELSE strings

\* The same test after the loop.
FinalFlush(strings, current, min_length) ==
    IF Len(current) >= min_length THEN Append(strings, current) ELSE strings

\* One turn of the loop over the bytes.
StringsStep(st, byte, min_length) ==
    IF IsPrintable(byte)
    THEN [st EXCEPT !.current = Append(st.current, byte)]
    ELSE [strings |-> FlushRun(st.strings, st.current, min_length),
          current |-> <<>>]

\* ---- inputs ---------------------------------------------------------

MaxBytes == 5

\* The bytes on both sides of each end of the printable range.
StringBytes == {31, 32, 126, 127}

StringBuffers == UNION {[1..n -> StringBytes] : n \in 0..MaxBytes}

MinLengths == {1, 2, DefaultMinLength}

\* ---- actions ---------------------------------------------------------

StringsEnter ==
    /\ fn = "_find_printable_strings"
    /\ fpc = "call"
    /\ result' = [strings |-> <<>>, current |-> <<>>]
    /\ offset' = 0
    /\ fpc' = "loop"
    /\ UNCHANGED <<fn, args, fileVars, batchVars>>

StringsNextByte ==
    /\ fn = "_find_printable_strings"
    /\ fpc = "loop"
    /\ offset < Len(args.data)
    /\ result' = StringsStep(result, args.data[offset + 1], args.min_length)
    /\ offset' = offset + 1
    /\ UNCHANGED <<fn, args, fpc, fileVars, batchVars>>

StringsReturn ==
    /\ fn = "_find_printable_strings"
    /\ fpc = "loop"
    /\ offset >= Len(args.data)
    /\ result' = Returned(FinalFlush(result.strings, result.current,
                                     args.min_length))
    /\ fpc' = "done"
    /\ UNCHANGED <<fn, args, offset, fileVars, batchVars>>

InitStrings ==
    /\ fn = "_find_printable_strings"
    /\ \E data \in StringBuffers, min_length \in MinLengths :
           args = [data |-> data, min_length |-> min_length]
    /\ result = <<>>
    /\ offset = 0
    /\ fpc = "call"
    /\ FileIdle
    /\ BatchIdle

NextStrings ==
    \/ StringsEnter
    \/ StringsNextByte
    \/ StringsReturn

SpecStrings == InitStrings /\ [][NextStrings]_vars

\* ---------------------------------------------------------------------
\* The strings returned

StringsDone == fn = "_find_printable_strings" /\ fpc = "done"

\* The maximal runs of printable bytes of data, as pairs <<first, last>>:
\* every byte of the run is printable and on each side lies another byte
\* or an end of the buffer.
MaximalRuns(data) ==
    {r \in (1..Len(data)) \X (1..Len(data)) :
        /\ r[1] <= r[2]
        /\ \A i \in r[1]..r[2] : IsPrintable(data[i])
        /\ r[1] = 1 \/ ~IsPrintable(data[r[1] - 1])
        /\ r[2] = Len(data) \/ ~IsPrintable(data[r[2] + 1])}

LongRuns(data, min_length) ==
    {r \in MaximalRuns(data) : r[2] - r[1] + 1 >= min_length}

\* C29: the strings returned are, in order of occurrence, exactly the
\* maximal runs of bytes in 0x20..0x7E whose length is at least the
\* minimum: a run that ends with the buffer is included, a shorter run is
\* dropped and no run is split or cut short.
C29_MaximalRuns ==
    StringsDone =>
        LET long == LongRuns(args.data, args.min_length)
            out == result.value
        IN  /\ ~result.raised
            /\ Len(out) = Cardinality(long)
            /\ \A r \in long :
                   out[Cardinality({q \in long : q[1] <= r[1]})] =
                       SubSeq(args.data, r[1], r[2])

\* Under minimum 2: the run of one byte is dropped and the run of three
\* that ends with the buffer is returned whole.
C29_Witness ==
    /\ StringsDone
    /\ args.min_length = 2
    /\ args.data = <<126, 31, 32, 126, 32>>
    /\ result.value = <<<<32, 126, 32>>>>

\* Under the default minimum a run of four bytes is returned and the byte
\* 0x7F after it is not part of it.
C29_DefaultMinimum ==
    /\ StringsDone
    /\ args.min_length = DefaultMinLength
    /\ args.data = <<32, 126, 126, 32, 127>>
    /\ result.value = <<<<32, 126, 126, 32>>>>

\* ---------------------------------------------------------------------
\* The temporary copy of scan_cloud

TempDirs == {t \in tmp : t.name = <<>>}
TempFiles == {t \in tmp : t.name # <<>>}

\* C30: in scan_cloud the temporary local copy of an object lives only for
\* that object's scan: when the object's report is appended, the temporary
\* directory and the downloaded file are gone, whether the download and the
\* scan succeeded or raised; at most one temporary copy exists at any time,
\* and the report keeps the cloud URI as its path.
C30_TempCopyScoped ==
    /\ [](root.cloud =>
            /\ Cardinality(TempDirs) <= 1
            /\ Cardinality(TempFiles) <= 1
            /\ \A f \in TempFiles : \E d \in TempDirs : d.dir = f.dir
            /\ (tmp # {} => bpc \in {"download", "scan"}))
    /\ [][(root.cloud /\ reports' # reports) =>
            /\ tmp' = {}
            /\ Len(reports') = Len(reports) + 1
            /\ SubSeq(reports', 1, Len(reports)) = reports
            /\ reports'[Len(reports')].path = <<"s3", Head(queue).path>>]_vars

\* A finished cloud scan of two objects that were both downloaded: the scan
\* of the first gave its report, scan_file raised on the second; both are
\* reported under their URIs and nothing temporary is left.
C30_Witness ==
    /\ bpc = "done"
    /\ root.cloud
    /\ Len(downloads) = 2
    /\ Len(reports) = 2
    /\ EntryOf(reports[1].path).kind = "ok"
    /\ reports[1].errors = <<>>
    /\ EntryOf(reports[2].path).kind = "scanfail"
    /\ reports[2].errors = <<"Cloud download/analysis error">>
    /\ \A i \in 1..2 : reports[i].path = <<"s3", root.listing[i].path>>
    /\ tmp = {}

\* While the second object is scanned, its directory and its downloaded
\* file exist and the first object's copy is gone.
C30_CopyDuringScan ==
    /\ bpc = "scan"
    /\ Len(downloads) = 2
    /\ Len(reports) = 1
    /\ tmp = {TempDir(root.listing[2]), TempFile(root.listing[2])}

\* A download that raised: the directory made for it is gone when the
\* report with the download error is appended.
C30_AfterFailedDownload ==
    /\ bpc = "cloud"
    /\ Len(downloads) = 1
    /\ Len(reports) = 1
    /\ EntryOf(reports[1].path).kind = "dlfail"
    /\ reports[1].errors = <<"Cloud download/analysis error">>
    /\ tmp = {}

\* ---------------------------------------------------------------------
\* The parser registry and Parser.parse (parsers/, scanner.py)
\*
\* A parser object is its class name with the attributes of the instance;
\* the built-in parsers are constructed without any.  In this part scanner
\* holds the registry, trace the calls made so far with what each returned,
\* and offset their number.

\* Surfer7Parser.parse: the while loop from offset off on.
RECURSIVE Surfer7Loop(_, _, _)
Surfer7Loop(data, off, res) ==
    IF off + 8 > Len(data) THEN Returned(res)
    ELSE
    LET tag == ReadTag(data, off)
        content_offset == tag.next
        section == ParseGridSection(data, content_offset, tag.tag_size, res)
        isGrid == tag.tag_id = TAG_GRID /\ content_offset + tag.tag_size <= Len(data)
        after == IF isGrid THEN section ELSE Returned(res)
    IN  IF after.raised THEN Raised
        ELSE IF tag.tag_size = 0 THEN after
        ELSE Surfer7Loop(data, content_offset + tag.tag_size, after.value)

Surfer7Parse(data) ==
    LET new == ParseResult("Surfer 7 Binary Grid")
    IN  IF Len(data) < 8 \/ Slice(data, 0, 4) /= SURFER7_MAGIC
        THEN Returned([new EXCEPT !.errors =
                          <<ParseError("Not a valid Surfer 7 file", <<>>)>>])
        ELSE Surfer7Loop(data, 0, new)

KEY_DATASETHEADER == <<68, 97, 116, 97, 115, 101, 116, 72, 101, 97, 100, 101, 114>>
KEY_RASTERINFO == <<82, 97, 115, 116, 101, 114, 73, 110, 102, 111>>
KEY_NROFCELLSPERLINE == <<78, 114, 79, 102, 67, 101, 108, 108, 115, 80, 101, 114, 76, 105,
    110, 101>>
KEY_NROFLINES == <<78, 114, 79, 102, 76, 105, 110, 101, 115>>
KEY_CELLTYPE == <<67, 101, 108, 108, 84, 121, 112, 101>>
KEY_COORDINATESPACE == <<67, 111, 111, 114, 100, 105, 110, 97, 116, 101, 83, 112, 97, 99,
    101>>
KEY_DATUM == <<68, 97, 116, 117, 109>>
KEY_PROJECTION == <<80, 114, 111, 106, 101, 99, 116, 105, 111, 110>>

EmptyDict == DictRef(<<>>)

\* d.get(key, default)
Get(d, key, default) == IF DictHas(d, key) THEN DictGet(d, key) ELSE default

\* bool(x) of a header value that may be a mapping
TruthyValue(x) == IF x.t = "dict" THEN x.v # <<>> ELSE Truthy(x)

\* ERMapperParser.parse: the header and the fields taken from it.  A
\* mapping inside the header is DictRef of its items.
ERMapperParse(data) ==
    LET header == parse_ers_header(DecodeAscii(data))
        new == [ParseResult("ER Mapper") EXCEPT !.header = header]
        raster == Get(header, KEY_DATASETHEADER, DictRef(header))
        raster_info == Get(raster.v, KEY_RASTERINFO, EmptyDict)
        nx == Get(raster_info.v, KEY_NROFCELLSPERLINE, IntValue(0))
        ny == Get(raster_info.v, KEY_NROFLINES, IntValue(0))
        coord == Get(raster.v, KEY_COORDINATESPACE, EmptyDict)
        cell == <<[key |-> "cell_type",
                   value |-> Get(raster_info.v, KEY_CELLTYPE, StrValue(<<>>))]>>
        space == <<[key |-> "datum",
                    value |-> Get(coord.v, KEY_DATUM, StrValue(<<>>))],
                   [key |-> "projection",
                    value |-> Get(coord.v, KEY_PROJECTION, StrValue(<<>>))]>>
    IN  Returned(
            IF raster.t # "dict" THEN new
            ELSE IF raster_info.t # "dict" THEN new
            ELSE [new EXCEPT
                    !.shape = IF TruthyValue(nx) /\ TruthyValue(ny)
                              THEN <<ny, nx>> ELSE <<>>,
                    !.metadata = IF coord.t = "dict" THEN cell \o space
                                 ELSE cell])

\* _BUILTIN_PARSERS
ParserObjects ==
    [i \in 1..Len(BuiltinParsers) |-> [name |-> BuiltinParsers[i], attrs |-> <<>>]]

\* Mutant: parse keeps the buffer it was given last on the parser.
ParserParseKeepsLast(self, data) ==
    [self |-> [self EXCEPT !.attrs = <<data>>],
     value |-> CASE self.name = "surfer6" -> Surfer6Parse(data)
                 [] self.name = "surfer7" -> Surfer7Parse(data)
                 [] self.name = "ermapper" -> ERMapperParse(data)
                 [] self.name = "encom" -> EncomParse(data)
                 [] self.name = "geosoft" -> GeosoftParse(data)
                 [] self.name = "zmap" -> ZMapParse(data)]

\* parser.parse(data): what it returns or that it raised, and the parser
\* after the call.  No parse method assigns to self.
ParserParse(self, data) ==
    [self |-> self,
     value |-> CASE self.name = "surfer6" -> Surfer6Parse(data)
                 [] self.name = "surfer7" -> Surfer7Parse(data)
                 [] self.name = "ermapper" -> ERMapperParse(data)
                 [] self.name = "encom" -> EncomParse(data)
                 [] self.name = "geosoft" -> GeosoftParse(data)
                 [] self.name = "zmap" -> ZMapParse(data)]

\* ---- inputs ---------------------------------------------------------

MaxCalls == 3

\* An .ers header with the fields parse looks for:
\*   DatasetHeader Begin / RasterInfo Begin / CellType = x / NrOfLines = 2
\*   / NrOfCellsPerLine = 3 / RasterInfo End / DatasetHeader End
ErsHeaderSample ==
    <<68, 97, 116, 97, 115, 101, 116, 72, 101, 97, 100, 101, 114, 32, 66,
    101, 103, 105, 110, 10, 82, 97, 115, 116, 101, 114, 73, 110, 102, 111,
    32, 66, 101, 103, 105, 110, 10, 67, 101, 108, 108, 84, 121, 112, 101,
    32, 61, 32, 120, 10, 78, 114, 79, 102, 76, 105, 110, 101, 115, 32, 61,
    32, 50, 10, 78, 114, 79, 102, 67, 101, 108, 108, 115, 80, 101, 114,
    76, 105, 110, 101, 32, 61, 32, 51, 10, 82, 97, 115, 116, 101, 114, 73,
    110, 102, 111, 32, 69, 110, 100, 10, 68, 97, 116, 97, 115, 101, 116,
    72, 101, 97, 100, 101, 114, 32, 69, 110, 100, 10>>

Surfer6Sample ==
    Surfer6Buffer([magic |-> SURFER6_MAGIC, nx |-> 2, ny |-> 1,
                   bounds |-> [i \in 1..6 |-> One64],
                   values |-> <<[s |-> 0, e |-> 127, m |-> 0],
                                [s |-> 1, e |-> 128, m |-> 2097152]>>,
                   extra |-> 0])

ZMapSample ==
    ZMapBuffer([comment |-> <<>>,
                row1 |-> [text |-> <<49, 53, 44, 32, 49, 48, 48, 44, 32, 44,
                                     32, 55, 44, 32, 49>>,
                          null |-> <<[kind |-> "num", m |-> 1, e |-> 2]>>],
                closed |-> TRUE,
                data |-> [text |-> <<49, 32, 57, 57, 32, 53, 48, 48>>,
                          values |-> <<>>]])

\* The buffers a parser is called on: one of its own format and one of
\* another.
ParserInputs(name) ==
    CASE name = "surfer6" -> <<Surfer6Sample, ZMapSample>>
      [] name = "surfer7" ->
           <<Surfer7Buffer([hs |-> 4, pre |-> TRUE, size |-> "full", nx |-> 1,
                            ny |-> 1, geometry |-> One64, values |-> <<Two64>>,
                            extra |-> 0, keep |-> "all"]),
             Surfer6Sample>>
      [] name = "ermapper" -> <<ErsHeaderSample, Surfer6Sample>>
      [] name = "encom" ->
           <<EncomBuffer([marker |-> GRID_MARKER, nx |-> 1, ny |-> 1,
                          bounds |-> [i \in 1..6 |-> Zero64],
                          values |-> <<[s |-> 0, e |-> 127, m |-> 0]>>,
                          extra |-> 0]),
             ZMapSample>>
      [] name = "geosoft" ->
           <<GeosoftHeaderBytes([es |-> 4, sf |-> 1, ne |-> 1, nv |-> 1,
                                 kx |-> 1, zmult |-> One64, zbase |-> Zero64])
                 \o <<0, 0, 128, 63>>,
             Surfer6Sample>>
      [] name = "zmap" -> <<ZMapSample, Surfer6Sample>>

\* ---- actions ---------------------------------------------------------

\* A caller takes a parser from the registry and calls parse on a buffer.
ParseCall ==
    /\ fn = "parse"
    /\ offset < MaxCalls
    /\ \E i \in 1..Len(scanner.parsers) :
       \E k \in 1..Len(ParserInputs(scanner.parsers[i].name)) :
       \E data \in {ParserInputs(scanner.parsers[i].name)[k]} :
       \E out \in {ParserParse(scanner.parsers[i], data)} :
          /\ scanner' = [scanner EXCEPT !.parsers[i] = out.self]
          /\ args' = [parser |-> i, input |-> k]
          /\ result' = out.value
          /\ trace' = Append(trace, [parser |-> i, input |-> k,
                                     value |-> out.value])
    /\ offset' = offset + 1
    /\ UNCHANGED <<fn, fpc, file, report, pc, batchVars>>

InitParsers ==
    /\ fn = "parse"
    /\ args = <<>>
    /\ result = <<>>
    /\ offset = 0
    /\ fpc = "call"
    /\ file = <<>>
    /\ scanner = [parsers |-> ParserObjects]
    /\ report = <<>>
    /\ pc = "idle"
    /\ trace = <<>>
    /\ BatchIdle

NextParsers == ParseCall

SpecParsers == InitParsers /\ [][NextParsers]_vars

\* ---------------------------------------------------------------------
\* Repeated parses

C21_OwnFormatParsed ==
    /\ fn = "parse"
    /\ Len(trace) = 3
    /\ \A a \in 1..3 :
          /\ trace[a].input = 1
          /\ ~trace[a].value.raised
          /\ trace[a].value.value.errors = <<>>
          /\ trace[a].value.value.data # <<>>
    /\ {scanner.parsers[trace[a].parser].name : a \in 1..3}
           = {"surfer7", "geosoft", "zmap"}

====
